---------------------------- MODULE Spec2Model ----------------------------
(***************************************************************************)
(* Reactive domain-state core of OTAnalytics: the observer/subject          *)
(* primitive, the bindable property, the selection states TrackState and    *)
(* SectionState, the validated section geometry, the section repository,    *)
(* and the TrackImageUpdater with the view state it keeps up to date.       *)
(*                                                                          *)
(* The objects of the core share no state: each owns a private subject.     *)
(* A behaviour drives one object (under_test) through any sequence of its   *)
(* operations.  Every operation is synchronous and runs to completion, so   *)
(* one action is one call, delivery to the observers included.  Observers   *)
(* are callbacks supplied by the caller: whether one raises when called is  *)
(* an input of the call (raises), and the iteration order of the observer   *)
(* set, which Python leaves unspecified, is an input too (order).           *)
(*                                                                          *)
(* last records the most recent call: the operation, its argument, the      *)
(* value before the call, the observers registered at the call, the         *)
(* notifications delivered during the call, and how it ended.               *)
(*                                                                          *)
(* BindingSpec looks inside a call: cells whose observers set other cells,  *)
(* with one step per call entered or returned; NestedSpec does the same for *)
(* observers that call select from inside their notification.  BuilderSpec  *)
(* drives the LineSectionGeometryBuilder of the user interface with canvas  *)
(* events.                                                                  *)
(***************************************************************************)
EXTENDS Integers, Sequences, FiniteSets, TLC

VARIABLES
    under_test,         \* the object the behaviour drives
    track_state,        \* TrackState: selected_track, observers (its TrackSubject)
    section_state,      \* SectionState: selected_section, observers (its SectionSubject)
    subjects,           \* a Subject, a SectionSubject, a SectionListSubject: observers
    bindable_property,  \* BindableProperty: _property, _observers (its Subject)
    property_log,       \* what the observers of bindable_property have seen so far
    section_repository, \* SectionRepository: _sections, a dict from id to section
    repository_log,     \* per id the section most recently added and not removed, if any
    track_view_state,   \* TrackViewState: the cells background_image and show_tracks
    datastore,          \* the datastore: tracks, frames, sections, track list observers
    track_image_updater,\* whether the TrackImageUpdater has been constructed
    updater_log,        \* what the most recent call fetched, plotted and published
    cells,              \* bound cells: per cell a BindableProperty
    stack,              \* the set calls on bound cells entered and not yet returned
    builder,            \* LineSectionGeometryBuilder: point0, point1_tmp, point1
    canvas_log,         \* what the builder has asked of its collaborators so far
    frames,             \* the select calls on a selection state entered and not returned
    reentry,            \* how observers react, and what the outermost select delivered
    last                \* the most recent call

vars == <<under_test, track_state, section_state, subjects, bindable_property,
          property_log, section_repository, repository_log, track_view_state,
          datastore, track_image_updater, updater_log, cells, stack, builder,
          canvas_log, frames, reentry, last>>

\* The observer core, and the objects around it.
core == <<track_state, section_state, subjects, bindable_property, property_log>>
repository_vars == <<section_repository, repository_log>>
view_vars == <<track_view_state, datastore, track_image_updater, updater_log>>
binding_vars == <<cells, stack>>
plugin_vars == <<builder, canvas_log>>
nested_vars == <<frames, reentry>>
others == <<repository_vars, view_vars, binding_vars, plugin_vars, nested_vars>>

\* Python's None: an absent selection or value.
None == "None"

TrackIds == {"t1", "t2"}
SectionIds == {"s1", "s2"}
Observers == {"o1", "o2"}
Values == {"v1", "v2"}

\* Longest list handed to notify_tracks / notify_sections / SectionListSubject.notify.
MaxListLen == 2
\* Most set calls on the bindable property in one behaviour.
MaxSets == 3
\* Coordinates range over 0..MaxCoord in x and in y.
MaxCoord == 1
\* Longest coordinate list handed to the Area constructor.
MaxAreaLen == 5
\* Most in-place changes of coordinate lists in one behaviour.
MaxMutations == 1
\* Most registrations between bound cells in one behaviour.
MaxBindings == 3
\* Deepest nesting of set calls followed.
MaxDepth == 5
\* Largest pixel coordinate of a canvas event.
MaxPixel == 1
\* Most canvas events delivered to a builder in one behaviour.
MaxEvents == 4

Lists(S) == UNION {[1..n -> S] : n \in 0..MaxListLen}

\* The orders in which a Python set of observers can be iterated.
Orders(S) ==
    {s \in [1..Cardinality(S) -> S] : \A i, j \in 1..Cardinality(S) : s[i] = s[j] => i = j}

NoCall ==
    [op |-> "none", obj |-> "none", arg |-> None, pre |-> None, observers |-> {},
     raises |-> {}, invoked |-> <<>>, result |-> "ok", returned |-> None]

Call(op, obj, arg, pre, observers, raises, invoked, result, returned) ==
    [op |-> op, obj |-> obj, arg |-> arg, pre |-> pre, observers |-> observers,
     raises |-> raises, invoked |-> invoked, result |-> result, returned |-> returned]

-----------------------------------------------------------------------------
(* Subjects.  notify is [observer(value) for observer in self.observers]:   *)
(* the comprehension calls the observers one after the other in iteration   *)
(* order, and an exception in one of them ends it and leaves notify.        *)
(* invoked lists the <<observer, value>> calls made, the raising one        *)
(* included.                                                                *)

RECURSIVE Deliver(_, _, _)
Deliver(order, value, raises) ==
    IF order = <<>>
    THEN [invoked |-> <<>>, raised |-> FALSE]
    ELSE IF Head(order) \in raises
         THEN [invoked |-> << <<Head(order), value>> >>, raised |-> TRUE]
         ELSE LET rest == Deliver(Tail(order), value, raises)
              IN  [invoked |-> << <<Head(order), value>> >> \o rest.invoked,
                   raised |-> rest.raised]

\* self.observers.add(observer) on a Python set
SetAdd(observers, observer) == observers \cup {observer}

\* Variant: the registration replaces the set instead of adding to it.
Subject_register_replacing(observers, observer) == {observer}

Subject_register(observers, observer) == SetAdd(observers, observer)

\* Variant: notify catches an observer's exception and goes on.
Subject_notify_catching(order, value, raises) ==
    [invoked |-> Deliver(order, value, {}).invoked, raised |-> FALSE]

Subject_notify(order, value, raises) == Deliver(order, value, raises)

SectionSubject_register(observers, observer) == SetAdd(observers, observer)

SectionSubject_notify(order, section_id, raises) == Deliver(order, section_id, raises)

SectionListSubject_register(observers, observer) == SetAdd(observers, observer)

\* Variant: delivery ends after the first observer.
SectionListSubject_notify_first(order, section_ids, raises) ==
    Deliver(IF order = <<>> THEN order ELSE <<Head(order)>>, section_ids, raises)

SectionListSubject_notify(order, section_ids, raises) == Deliver(order, section_ids, raises)

\* TrackSubject lives in domain/track.py: the track-side twin of SectionSubject.
TrackSubject_register(observers, observer) == observers \cup {observer}

TrackSubject_notify(order, track_id, raises) == Deliver(order, track_id, raises)

\* How a call that delivered notifications ends: an observer's exception is not caught.
Outcome(d) == IF d.raised THEN "ObserverError" ELSE "ok"

SubjectKinds == {"Subject", "SectionSubject", "SectionListSubject"}

SubjectValues(kind) ==
    CASE kind = "Subject" -> Values \cup {None}
      [] kind = "SectionSubject" -> SectionIds \cup {None}
      [] kind = "SectionListSubject" -> Lists(SectionIds)

RegisterOn(kind, observers, observer) ==
    CASE kind = "Subject" -> Subject_register(observers, observer)
      [] kind = "SectionSubject" -> SectionSubject_register(observers, observer)
      [] kind = "SectionListSubject" -> SectionListSubject_register(observers, observer)

NotifyOn(kind, order, value, raises) ==
    CASE kind = "Subject" -> Subject_notify(order, value, raises)
      [] kind = "SectionSubject" -> SectionSubject_notify(order, value, raises)
      [] kind = "SectionListSubject" -> SectionListSubject_notify(order, value, raises)

SubjectRegister ==
    /\ under_test \in SubjectKinds
    /\ \E o \in Observers :
        /\ subjects' = [subjects EXCEPT ![under_test].observers =
                            RegisterOn(under_test, @, o)]
        /\ last' = Call("register", under_test, o, None,
                        subjects[under_test].observers, {}, <<>>, "ok", None)
    /\ UNCHANGED <<under_test, others, track_state, section_state, bindable_property,
                   property_log>>

SubjectNotify ==
    /\ under_test \in SubjectKinds
    /\ \E v \in SubjectValues(under_test),
          order \in Orders(subjects[under_test].observers),
          raises \in SUBSET subjects[under_test].observers :
        LET d == NotifyOn(under_test, order, v, raises)
        IN  last' = Call("notify", under_test, v, None,
                         subjects[under_test].observers, raises, d.invoked,
                         Outcome(d), None)
    /\ UNCHANGED <<under_test, others, track_state, section_state, subjects,
                   bindable_property, property_log>>

-----------------------------------------------------------------------------
(* BindableProperty *)

\* Variant: registering puts the cell back to its initial value.
BindableProperty_register_resetting(p, observer) ==
    [p EXCEPT !._observers = Subject_register(@, observer), !._property = None]

BindableProperty_register(p, observer) ==
    [p EXCEPT !._observers = Subject_register(@, observer)]

BindableProperty_get(p) == p._property

\* Variant: the value is stored after the notification, so not when it raises.
BindableProperty_set_store_last(p, value, order, raises) ==
    LET d == Subject_notify(order, value, raises)
    IN  [state |-> IF d.raised THEN p ELSE [p EXCEPT !._property = value],
         invoked |-> d.invoked, result |-> Outcome(d),
         read |-> [i \in 1..Len(d.invoked) |-> BindableProperty_get(p)]]

\* Variant: set notifies only when the value changes, as select does.
BindableProperty_set_deduplicating(p, value, order, raises) ==
    IF p._property # value
    THEN LET d == Subject_notify(order, value, raises)
             stored == [p EXCEPT !._property = value]
         IN  [state |-> stored, invoked |-> d.invoked, result |-> Outcome(d),
              read |-> [i \in 1..Len(d.invoked) |-> BindableProperty_get(stored)]]
    ELSE [state |-> p, invoked |-> <<>>, result |-> "ok", read |-> <<>>]

\* self._property = value, then self._subject.notify(value): read is what a
\* get() on the cell returns to each observer invoked, inside its call.
BindableProperty_set(p, value, order, raises) ==
    LET stored == [p EXCEPT !._property = value]
        d == Subject_notify(order, value, raises)
    IN  [state |-> stored, invoked |-> d.invoked, result |-> Outcome(d),
         read |-> [i \in 1..Len(d.invoked) |-> BindableProperty_get(stored)]]

\* The values delivered to observer o by the calls in invoked, in order.
RECURSIVE SeenBy(_, _)
SeenBy(o, invoked) ==
    IF invoked = <<>> THEN <<>>
    ELSE (IF Head(invoked)[1] = o THEN <<Head(invoked)[2]>> ELSE <<>>)
         \o SeenBy(o, Tail(invoked))

PropertyRegister ==
    /\ under_test = "BindableProperty"
    /\ \E o \in Observers :
        /\ bindable_property' = BindableProperty_register(bindable_property, o)
        /\ property_log' =
             IF o \in bindable_property._observers THEN property_log
             ELSE [property_log EXCEPT !.registered_at[o] = Len(property_log.sets)]
        /\ last' = Call("register", "BindableProperty", o, bindable_property,
                        bindable_property._observers, {}, <<>>, "ok", None)
    /\ UNCHANGED <<under_test, others, track_state, section_state, subjects>>

PropertySet ==
    /\ under_test = "BindableProperty"
    /\ Len(property_log.sets) < MaxSets
    /\ \E v \in Values \cup {None},
          order \in Orders(bindable_property._observers),
          raises \in SUBSET bindable_property._observers :
        LET r == BindableProperty_set(bindable_property, v, order, raises)
        IN  /\ bindable_property' = r.state
            /\ property_log' =
                 [property_log EXCEPT
                    !.sets = Append(@, v),
                    !.received = [o \in Observers |-> @[o] \o SeenBy(o, r.invoked)],
                    !.raised = @ \/ r.result # "ok",
                    !.read = r.read]
            /\ last' = Call("set", "BindableProperty", v, bindable_property,
                            bindable_property._observers, raises, r.invoked,
                            r.result, None)
    /\ UNCHANGED <<under_test, others, track_state, section_state, subjects>>

PropertyGet ==
    /\ under_test = "BindableProperty"
    /\ last' = Call("get", "BindableProperty", None, bindable_property,
                    bindable_property._observers, {}, <<>>, "ok",
                    BindableProperty_get(bindable_property))
    /\ UNCHANGED <<under_test, others, track_state, section_state, subjects,
                   bindable_property, property_log>>

-----------------------------------------------------------------------------
(* TrackState *)

TrackState_register(ts, observer) ==
    [ts EXCEPT !.observers = TrackSubject_register(@, observer)]

\* Variant: select without the comparison with the current selection.
TrackState_select_unconditional(ts, track_id, order, raises) ==
    LET selected == [ts EXCEPT !.selected_track = track_id]
        d == TrackSubject_notify(order, selected.selected_track, raises)
    IN  [state |-> selected, invoked |-> d.invoked, result |-> Outcome(d)]

\* Variant: the selection is put back when an observer raises.
TrackState_select_rolling_back(ts, track_id, order, raises) ==
    IF ts.selected_track # track_id
    THEN LET selected == [ts EXCEPT !.selected_track = track_id]
             d == TrackSubject_notify(order, selected.selected_track, raises)
         IN  [state |-> IF d.raised THEN ts ELSE selected,
              invoked |-> d.invoked, result |-> Outcome(d)]
    ELSE [state |-> ts, invoked |-> <<>>, result |-> "ok"]

TrackState_select(ts, track_id, order, raises) ==
    IF ts.selected_track # track_id
    THEN LET selected == [ts EXCEPT !.selected_track = track_id]
             d == TrackSubject_notify(order, selected.selected_track, raises)
         IN  [state |-> selected, invoked |-> d.invoked, result |-> Outcome(d)]
    ELSE [state |-> ts, invoked |-> <<>>, result |-> "ok"]

\* Variant: an empty list is ignored instead of rejected.
TrackState_notify_tracks_lenient(ts, tracks, order, raises) ==
    IF tracks = <<>>
    THEN [state |-> ts, invoked |-> <<>>, result |-> "ok"]
    ELSE TrackState_select(ts, tracks[1], order, raises)

\* Variant: an empty list clears the selection.
TrackState_notify_tracks_clearing(ts, tracks, order, raises) ==
    IF tracks = <<>>
    THEN TrackState_select(ts, None, order, raises)
    ELSE TrackState_select(ts, tracks[1], order, raises)

TrackState_notify_tracks(ts, tracks, order, raises) ==
    IF tracks = <<>>
    THEN [state |-> ts, invoked |-> <<>>, result |-> "IndexError"]
    ELSE TrackState_select(ts, tracks[1], order, raises)

TrackRegister ==
    /\ under_test = "TrackState"
    /\ \E o \in Observers :
        /\ track_state' = TrackState_register(track_state, o)
        /\ last' = Call("register", "TrackState", o, track_state.selected_track,
                        track_state.observers, {}, <<>>, "ok", None)
    /\ UNCHANGED <<under_test, others, section_state, subjects, bindable_property,
                   property_log>>

TrackSelect ==
    /\ under_test \in {"TrackState", "TrackImageUpdater"}
    /\ \E x \in TrackIds \cup {None}, order \in Orders(track_state.observers),
          raises \in SUBSET track_state.observers :
        LET r == TrackState_select(track_state, x, order, raises)
        IN  /\ track_state' = r.state
            /\ last' = Call("select", "TrackState", x, track_state.selected_track,
                            track_state.observers, raises, r.invoked, r.result, None)
    /\ UNCHANGED <<under_test, others, section_state, subjects, bindable_property,
                   property_log>>

TrackNotifyTracks ==
    /\ under_test = "TrackState"
    /\ \E tracks \in Lists(TrackIds), order \in Orders(track_state.observers),
          raises \in SUBSET track_state.observers :
        LET r == TrackState_notify_tracks(track_state, tracks, order, raises)
        IN  /\ track_state' = r.state
            /\ last' = Call("notify_list", "TrackState", tracks,
                            track_state.selected_track, track_state.observers,
                            raises, r.invoked, r.result, None)
    /\ UNCHANGED <<under_test, others, section_state, subjects, bindable_property,
                   property_log>>

-----------------------------------------------------------------------------
(* SectionState *)

SectionState_register(ss, observer) ==
    [ss EXCEPT !.observers = SectionSubject_register(@, observer)]

\* Variant: the observers are notified before the selection is assigned.
SectionState_select_notify_first(ss, section_id, order, raises) ==
    IF ss.selected_section # section_id
    THEN LET d == SectionSubject_notify(order, ss.selected_section, raises)
         IN  [state |-> [ss EXCEPT !.selected_section = section_id],
              invoked |-> d.invoked, result |-> Outcome(d)]
    ELSE [state |-> ss, invoked |-> <<>>, result |-> "ok"]

SectionState_select(ss, section_id, order, raises) ==
    IF ss.selected_section # section_id
    THEN LET selected == [ss EXCEPT !.selected_section = section_id]
             d == SectionSubject_notify(order, selected.selected_section, raises)
         IN  [state |-> selected, invoked |-> d.invoked, result |-> Outcome(d)]
    ELSE [state |-> ss, invoked |-> <<>>, result |-> "ok"]

\* Variant: the last element of the list is selected.
SectionState_notify_sections_last(ss, section_ids, order, raises) ==
    IF section_ids = <<>>
    THEN [state |-> ss, invoked |-> <<>>, result |-> "IndexError"]
    ELSE SectionState_select(ss, section_ids[Len(section_ids)], order, raises)

SectionState_notify_sections(ss, section_ids, order, raises) ==
    IF section_ids = <<>>
    THEN [state |-> ss, invoked |-> <<>>, result |-> "IndexError"]
    ELSE SectionState_select(ss, section_ids[1], order, raises)

SectionRegister ==
    /\ under_test = "SectionState"
    /\ \E o \in Observers :
        /\ section_state' = SectionState_register(section_state, o)
        /\ last' = Call("register", "SectionState", o, section_state.selected_section,
                        section_state.observers, {}, <<>>, "ok", None)
    /\ UNCHANGED <<under_test, others, track_state, subjects, bindable_property,
                   property_log>>

SectionSelect ==
    /\ under_test = "SectionState"
    /\ \E x \in SectionIds \cup {None}, order \in Orders(section_state.observers),
          raises \in SUBSET section_state.observers :
        LET r == SectionState_select(section_state, x, order, raises)
        IN  /\ section_state' = r.state
            /\ last' = Call("select", "SectionState", x,
                            section_state.selected_section, section_state.observers,
                            raises, r.invoked, r.result, None)
    /\ UNCHANGED <<under_test, others, track_state, subjects, bindable_property,
                   property_log>>

SectionNotifySections ==
    /\ under_test = "SectionState"
    /\ \E section_ids \in Lists(SectionIds),
          order \in Orders(section_state.observers),
          raises \in SUBSET section_state.observers :
        LET r == SectionState_notify_sections(section_state, section_ids, order, raises)
        IN  /\ section_state' = r.state
            /\ last' = Call("notify_list", "SectionState", section_ids,
                            section_state.selected_section, section_state.observers,
                            raises, r.invoked, r.result, None)
    /\ UNCHANGED <<under_test, others, track_state, subjects, bindable_property,
                   property_log>>

-----------------------------------------------------------------------------
(* Section geometry.  Section is a frozen dataclass deriving from           *)
(* DataclassValidation (domain/common.py), whose __post_init__ runs the     *)
(* variant's _validate; Coordinate (domain/geometry.py) is a dataclass of   *)
(* x and y, compared field by field.                                        *)

Coordinate(x, y) == [x |-> x, y |-> y]

Coordinates == {Coordinate(x, y) : x \in 0..MaxCoord, y \in 0..MaxCoord}

\* Variant: only the x coordinates are compared.
LineSection_validate_x_only(self) ==
    IF self.start.x = self.end.x THEN "ValueError" ELSE "ok"

LineSection_validate(self) ==
    IF self.start = self.end THEN "ValueError" ELSE "ok"

\* The constructor: the fields are set, then __post_init__ validates; an
\* exception leaves the caller without a value (created is empty).
LineSection_init(id, start, end) ==
    LET self == [variant |-> "LineSection", id |-> id, start |-> start, end |-> end]
        validated == LineSection_validate(self)
    IN  [result |-> validated, created |-> IF validated = "ok" THEN {self} ELSE {}]

ConstructLineSection ==
    /\ under_test = "LineSection"
    /\ \E id \in SectionIds, start \in Coordinates, end \in Coordinates :
        LET r == LineSection_init(id, start, end)
        IN  last' = Call("LineSection", "LineSection", <<id, start, end>>, None,
                         {}, {}, <<>>, r.result, r.created)
    /\ UNCHANGED <<under_test, others, track_state, section_state, subjects,
                   bindable_property, property_log>>

\* The least number of coordinates of an area (section.py:186).
MinAreaCoordinates == 4

\* The corners areas are drawn from, and the candidate coordinate lists.
AreaCorners == {Coordinate(0, 0), Coordinate(MaxCoord, 0), Coordinate(MaxCoord, MaxCoord)}

CoordinateLists ==
    UNION {[1..n -> AreaCorners] : n \in 0..MaxAreaLen}

\* Variant: three coordinates are enough.
Area_validate_three(self) ==
    IF Len(self.coordinates) < MinAreaCoordinates - 1 THEN "ValueError"
    ELSE IF self.coordinates[1] # self.coordinates[Len(self.coordinates)]
         THEN "ValueError"
         ELSE "ok"

Area_validate(self) ==
    IF Len(self.coordinates) < MinAreaCoordinates THEN "ValueError"
    ELSE IF self.coordinates[1] # self.coordinates[Len(self.coordinates)]
         THEN "ValueError"
         ELSE "ok"

\* The constructor stores the list it is given, then __post_init__ validates.
Area_init(id, coordinates) ==
    LET self == [variant |-> "Area", id |-> id, coordinates |-> coordinates]
        validated == Area_validate(self)
    IN  [result |-> validated, created |-> IF validated = "ok" THEN {self} ELSE {}]

\* One construction per behaviour: a constructor shares nothing with the
\* calls before it.
ConstructArea ==
    /\ under_test = "Area"
    /\ last = NoCall
    /\ \E id \in SectionIds, coordinates \in CoordinateLists :
        LET r == Area_init(id, coordinates)
        IN  last' = Call("Area", "Area", <<id, coordinates>>, None,
                         {}, {}, <<>>, r.result, r.created)
    /\ UNCHANGED <<under_test, others, track_state, section_state, subjects,
                   bindable_property, property_log>>

-----------------------------------------------------------------------------
(* SectionRepository.  _sections is a Python dict, modelled as the set of   *)
(* its items; a section is held by reference, so what a holder does to the  *)
(* section's coordinate list is seen through the repository.                *)

Item(key, value) == [key |-> key, value |-> value]

Keys(dict) == {item.key : item \in dict}

\* dict[key] = value
SetItem(dict, key, value) ==
    {item \in dict : item.key # key} \cup {Item(key, value)}

\* del dict[key]
DelItem(dict, key) ==
    IF key \in Keys(dict)
    THEN [result |-> "ok", dict |-> {item \in dict : item.key # key}]
    ELSE [result |-> "KeyError", dict |-> dict]

\* Variant: an id already present keeps its section.
SectionRepository_add_keeping(self, section) ==
    IF section.id \in Keys(self._sections) THEN self
    ELSE [self EXCEPT !._sections = SetItem(@, section.id, section)]

SectionRepository_add(self, section) ==
    [self EXCEPT !._sections = SetItem(@, section.id, section)]

\* Variant: the sections are added last first.
RECURSIVE SectionRepository_add_all_reversed(_, _)
SectionRepository_add_all_reversed(self, sections) ==
    IF sections = <<>> THEN self
    ELSE SectionRepository_add(SectionRepository_add_all_reversed(self, Tail(sections)),
                               Head(sections))

RECURSIVE SectionRepository_add_all(_, _)
SectionRepository_add_all(self, sections) ==
    IF sections = <<>> THEN self
    ELSE SectionRepository_add_all(SectionRepository_add(self, Head(sections)),
                                   Tail(sections))

SectionRepository_get_all(self) == {item.value : item \in self._sections}

\* Variant: an absent id is passed over in silence.
SectionRepository_remove_lenient(self, section) ==
    [result |-> "ok",
     state |-> [self EXCEPT !._sections = DelItem(@, section.id).dict]]

SectionRepository_remove(self, section) ==
    LET deleted == DelItem(self._sections, section.id)
    IN  [result |-> deleted.result,
         state |-> [self EXCEPT !._sections = deleted.dict]]

\* The sections callers hold: whatever the constructors let through.
Origin == Coordinate(0, 0)

Triangle == <<Origin, Coordinate(MaxCoord, 0), Coordinate(MaxCoord, MaxCoord)>>

SectionsOffered ==
    UNION ({LineSection_init(id, Origin, end).created :
                id \in SectionIds, end \in {Origin, Triangle[3]}}
           \cup {Area_init(id, coordinates).created :
                id \in SectionIds, coordinates \in {Triangle, Triangle \o <<Origin>>}})

RECURSIVE Latest(_, _)
Latest(latest, sections) ==
    IF sections = <<>> THEN latest
    ELSE Latest([latest EXCEPT ![Head(sections).id] = {Head(sections)}], Tail(sections))

RepositoryAdd ==
    /\ under_test = "SectionRepository"
    /\ \E section \in SectionsOffered :
        /\ section_repository' = SectionRepository_add(section_repository, section)
        /\ repository_log' = [repository_log EXCEPT !.latest[section.id] = {section}]
        /\ last' = Call("add", "SectionRepository", section, section_repository,
                        {}, {}, <<>>, "ok", None)
    /\ UNCHANGED <<under_test, core, plugin_vars, nested_vars, view_vars, binding_vars>>

RepositoryAddAll ==
    /\ under_test = "SectionRepository"
    /\ \E sections \in Lists(SectionsOffered) :
        /\ section_repository' = SectionRepository_add_all(section_repository, sections)
        /\ repository_log' = [repository_log EXCEPT !.latest = Latest(@, sections)]
        /\ last' = Call("add_all", "SectionRepository", sections, section_repository,
                        {}, {}, <<>>, "ok", None)
    /\ UNCHANGED <<under_test, core, plugin_vars, nested_vars, view_vars, binding_vars>>

RepositoryGetAll ==
    /\ under_test = "SectionRepository"
    /\ last' = Call("get_all", "SectionRepository", None, section_repository,
                    {}, {}, <<>>, "ok", SectionRepository_get_all(section_repository))
    /\ UNCHANGED <<under_test, core, plugin_vars, nested_vars, binding_vars, repository_vars, view_vars>>

RepositoryRemove ==
    /\ under_test = "SectionRepository"
    /\ \E section \in SectionsOffered :
        LET r == SectionRepository_remove(section_repository, section)
        IN  /\ section_repository' = r.state
            /\ repository_log' =
                  IF r.result = "ok"
                  THEN [repository_log EXCEPT !.latest[section.id] = {}]
                  ELSE repository_log
            /\ last' = Call("remove", "SectionRepository", section, section_repository,
                            {}, {}, <<>>, r.result, None)
    /\ UNCHANGED <<under_test, core, plugin_vars, nested_vars, view_vars, binding_vars>>

(* What a holder of a section can do to it.  The section classes are        *)
(* dataclasses declared frozen: assigning a field raises and changes        *)
(* nothing.  Area.coordinates is a plain Python list, which the area        *)
(* shares with its holders: append and pop change it in place, and no       *)
(* validation runs again.                                                   *)

Frozen_setattr(self, value) ==
    [result |-> "FrozenInstanceError", section |-> self]

List_append(list, x) == [result |-> "ok", list |-> Append(list, x)]

List_pop(list) ==
    IF list = <<>> THEN [result |-> "IndexError", list |-> list]
    ELSE [result |-> "ok", list |-> SubSeq(list, 1, Len(list) - 1)]

\* The section held under item.key is now the object in the changed state.
Held(item, section) ==
    /\ section_repository' =
          [section_repository EXCEPT
              !._sections = (@ \ {item}) \cup {Item(item.key, section)}]
    /\ repository_log' =
          [latest |-> [id \in SectionIds |->
                          IF repository_log.latest[id] = {item.value} THEN {section}
                          ELSE repository_log.latest[id]],
           mutations |-> IF section = item.value THEN repository_log.mutations
                         ELSE repository_log.mutations + 1]

HolderAssignsField ==
    /\ under_test = "SectionRepository"
    /\ \E item \in section_repository._sections, value \in AreaCorners :
        LET r == Frozen_setattr(item.value, value)
        IN  /\ Held(item, r.section)
            /\ last' = Call("setattr", "Section", <<item.value, value>>,
                            section_repository, {}, {}, <<>>, r.result, None)
    /\ UNCHANGED <<under_test, core, plugin_vars, nested_vars, view_vars, binding_vars>>

HolderAppendsCoordinate ==
    /\ under_test = "SectionRepository"
    /\ repository_log.mutations < MaxMutations
    /\ \E item \in section_repository._sections, corner \in AreaCorners :
        /\ item.value.variant = "Area"
        /\ LET r == List_append(item.value.coordinates, corner)
           IN  /\ Held(item, [item.value EXCEPT !.coordinates = r.list])
               /\ last' = Call("coordinates.append", "Area", <<item.value, corner>>,
                               section_repository, {}, {}, <<>>, r.result, None)
    /\ UNCHANGED <<under_test, core, plugin_vars, nested_vars, view_vars, binding_vars>>

HolderPopsCoordinate ==
    /\ under_test = "SectionRepository"
    /\ repository_log.mutations < MaxMutations
    /\ \E item \in section_repository._sections :
        /\ item.value.variant = "Area"
        /\ LET r == List_pop(item.value.coordinates)
           IN  /\ Held(item, [item.value EXCEPT !.coordinates = r.list])
               /\ last' = Call("coordinates.pop", "Area", <<item.value>>,
                               section_repository, {}, {}, <<>>, r.result, None)
    /\ UNCHANGED <<under_test, core, plugin_vars, nested_vars, view_vars, binding_vars>>

(* Serialization.  to_dict returns a Python dict with string keys and       *)
(* values of several kinds, modelled as a record; Coordinate.to_dict        *)
(* (domain/geometry.py) returns the dict of x and y, modelled like          *)
(* _sections as the set of its items.  The sections of the model are        *)
(* constructed with empty relative_offset_coordinates and plugin_data.      *)

LINE == "line"

AREA == "area"

\* dict[key] of a key that is present
GetItem(dict, key) == (CHOOSE item \in dict : item.key = key).value

Coordinate_to_dict(self) == {Item("x", self.x), Item("y", self.y)}

Section_serialize_relative_offset_coordinates(self) == {}

LineSection_to_dict(self) ==
    [id |-> self.id,
     type |-> LINE,
     relative_offset_coordinates |-> Section_serialize_relative_offset_coordinates(self),
     start |-> Coordinate_to_dict(self.start),
     end |-> Coordinate_to_dict(self.end),
     plugin_data |-> {}]

\* Variant: the coordinates come out last first.
Area_to_dict_reversed(self) ==
    [type |-> AREA,
     id |-> self.id,
     relative_offset_coordinates |-> Section_serialize_relative_offset_coordinates(self),
     coordinates |-> [i \in 1..Len(self.coordinates) |->
                         Coordinate_to_dict(
                             self.coordinates[Len(self.coordinates) + 1 - i])],
     plugin_data |-> {}]

Area_to_dict(self) ==
    [type |-> AREA,
     id |-> self.id,
     relative_offset_coordinates |-> Section_serialize_relative_offset_coordinates(self),
     coordinates |-> [i \in 1..Len(self.coordinates) |->
                         Coordinate_to_dict(self.coordinates[i])],
     plugin_data |-> {}]

\* section.to_dict(), dispatched on the class of the section
Section_to_dict(self) ==
    IF self.variant = "LineSection" THEN LineSection_to_dict(self)
    ELSE Area_to_dict(self)

\* A holder serializes a section the repository holds.
SectionToDict ==
    /\ under_test = "SectionRepository"
    /\ \E item \in section_repository._sections :
        last' = Call("to_dict", item.value.variant, item.value, section_repository,
                     {}, {}, <<>>, "ok", Section_to_dict(item.value))
    /\ UNCHANGED <<under_test, core, plugin_vars, nested_vars, repository_vars, view_vars, binding_vars>>

-----------------------------------------------------------------------------
(* TrackViewState and TrackImageUpdater.  The updater's collaborators are   *)
(* the datastore (application/datastore.py), the images (TrackImage,        *)
(* domain/track.py) and the plotter (abstract in state.py).  An optional    *)
(* image is the set of no or one image; Python's True and False are         *)
(* "True" and "False".                                                      *)

\* Python's truth test on an Optional[bool].
Truthy(value) == value \notin {None, "False"}

BindableProperty_init == [_property |-> None, _observers |-> {}]

\* A cell of images, empty at first.
ImageProperty_init == [_property |-> {}, _observers |-> {}]

TrackViewState_init ==
    [background_image |-> ImageProperty_init, show_tracks |-> BindableProperty_init]

\* The frame the datastore has for a track; frames differ in size.
Frame(track_id) ==
    [frame |-> track_id,
     width |-> IF track_id = "t1" THEN 4 ELSE 3,
     height |-> IF track_id = "t1" THEN 2 ELSE 3,
     overlay |-> {}]

TrackImage_width(self) == self.width

TrackImage_height(self) == self.height

\* new_image.add(track_image): the frame with the plot laid over it.
TrackImage_add(self, other) == [self EXCEPT !.overlay = {other}]

Datastore_get_all_tracks(datastore_) == datastore_.tracks

Datastore_get_all_sections(datastore_) == datastore_.sections

Datastore_get_image_of_track(datastore_, track_id) ==
    IF track_id \in datastore_.images THEN {Frame(track_id)} ELSE {}

\* The plot is whatever the plotter draws from its arguments.
TrackPlotter_plot(tracks, sections, width, height) ==
    [tracks |-> tracks, sections |-> sections, width |-> width, height |-> height]

\* The bound method the updater registers on show_tracks, and the updater
\* as a track list observer.
UpdaterNotify == "TrackImageUpdater.notify"

Updater == "TrackImageUpdater"

\* The outcome of an updater call: the view state after it, the track ids
\* the frames were fetched for, the plots made, the values handed to
\* background_image.set, the observers of background_image invoked, and
\* how the call ended (the exception's name when it raised).
Effect(view, fetched, plotted, published, invoked, result) ==
    [view |-> view, fetched |-> fetched, plotted |-> plotted,
     published |-> published, invoked |-> invoked, result |-> result]

\* Variant: without a frame the background image is cleared.
TrackImageUpdater_update_image_clearing(view, datastore_, track_id, order, raises) ==
    LET s == BindableProperty_set(view.background_image,
                                  Datastore_get_image_of_track(datastore_, track_id),
                                  order, raises)
    IN  Effect([view EXCEPT !.background_image = s.state], <<track_id>>, <<>>,
               <<Datastore_get_image_of_track(datastore_, track_id)>>,
               s.invoked, s.result)

\* Variant: the plot is asked for with width and height exchanged.
TrackImageUpdater_update_image_transposed(view, datastore_, track_id, order, raises) ==
    LET found == Datastore_get_image_of_track(datastore_, track_id)
    IN  IF found = {} THEN Effect(view, <<track_id>>, <<>>, <<>>, <<>>, "ok")
        ELSE LET new_image == CHOOSE image \in found : TRUE
                 plotting == Truthy(BindableProperty_get(view.show_tracks))
                 track_image == TrackPlotter_plot(Datastore_get_all_tracks(datastore_),
                                                  Datastore_get_all_sections(datastore_),
                                                  TrackImage_height(new_image),
                                                  TrackImage_width(new_image))
                 image == IF plotting THEN TrackImage_add(new_image, track_image)
                          ELSE new_image
                 s == BindableProperty_set(view.background_image, {image}, order, raises)
             IN  Effect([view EXCEPT !.background_image = s.state], <<track_id>>,
                        IF plotting THEN <<track_image>> ELSE <<>>,
                        <<{image}>>, s.invoked, s.result)

TrackImageUpdater_update_image(view, datastore_, track_id, order, raises) ==
    LET found == Datastore_get_image_of_track(datastore_, track_id)
    IN  IF found = {} THEN Effect(view, <<track_id>>, <<>>, <<>>, <<>>, "ok")
        ELSE LET new_image == CHOOSE image \in found : TRUE
                 plotting == Truthy(BindableProperty_get(view.show_tracks))
                 track_image == TrackPlotter_plot(Datastore_get_all_tracks(datastore_),
                                                  Datastore_get_all_sections(datastore_),
                                                  TrackImage_width(new_image),
                                                  TrackImage_height(new_image))
                 image == IF plotting THEN TrackImage_add(new_image, track_image)
                          ELSE new_image
                 s == BindableProperty_set(view.background_image, {image}, order, raises)
             IN  Effect([view EXCEPT !.background_image = s.state], <<track_id>>,
                        IF plotting THEN <<track_image>> ELSE <<>>,
                        <<{image}>>, s.invoked, s.result)

\* Variant: the last of the changed tracks is taken.
TrackImageUpdater_notify_tracks_last(view, datastore_, tracks, order, raises) ==
    IF tracks = <<>> THEN Effect(view, <<>>, <<>>, <<>>, <<>>, "IndexError")
    ELSE TrackImageUpdater_update_image(view, datastore_, tracks[Len(tracks)], order, raises)

TrackImageUpdater_notify_tracks(view, datastore_, tracks, order, raises) ==
    IF tracks = <<>> THEN Effect(view, <<>>, <<>>, <<>>, <<>>, "IndexError")
    ELSE TrackImageUpdater_update_image(view, datastore_, tracks[1], order, raises)

\* next(iter(...)) on an empty collection raises StopIteration.
TrackImageUpdater_notify(view, datastore_, show_tracks, order, raises) ==
    IF Datastore_get_all_tracks(datastore_) = <<>>
    THEN Effect(view, <<>>, <<>>, <<>>, <<>>, "StopIteration")
    ELSE TrackImageUpdater_update_image(view, datastore_,
                                        Head(Datastore_get_all_tracks(datastore_)),
                                        order, raises)

\* Variant: the constructor also registers the updater for track list changes.
TrackImageUpdater_init_listening(view, datastore_) ==
    [view |-> [view EXCEPT !.show_tracks = BindableProperty_register(@, UpdaterNotify)],
     datastore |-> [datastore_ EXCEPT !.track_observers = SetAdd(@, Updater)]]

TrackImageUpdater_init(view, datastore_) ==
    [view |-> [view EXCEPT !.show_tracks = BindableProperty_register(@, UpdaterNotify)],
     datastore |-> datastore_]

\* Variant: the observers of the cell run before the value is stored.
TrackViewState_show_tracks_set_notify_first(view, datastore_, value, order, raises) ==
    LET u == TrackImageUpdater_notify(view, datastore_, value, order, raises)
        s == BindableProperty_set(view.show_tracks, value,
                                  CHOOSE o \in Orders(view.show_tracks._observers) : TRUE,
                                  IF u.result = "ok" THEN {} ELSE {UpdaterNotify})
    IN  IF s.invoked = <<>>
        THEN [effect |-> Effect([view EXCEPT !.show_tracks = s.state],
                                <<>>, <<>>, <<>>, <<>>, "ok"),
              called |-> s.invoked, result |-> s.result]
        ELSE [effect |-> [u EXCEPT !.view.show_tracks = s.state],
              called |-> s.invoked, result |-> s.result]

\* show_tracks.set(value): the value is stored, then the observers of the
\* cell run inside the call; the only observer this cell ever gets is the
\* updater's notify, and what it raises leaves set.
TrackViewState_show_tracks_set(view, datastore_, value, order, raises) ==
    LET stored == [view EXCEPT
                      !.show_tracks = BindableProperty_set(@, value, <<>>, {}).state]
        u == TrackImageUpdater_notify(stored, datastore_, value, order, raises)
        s == BindableProperty_set(view.show_tracks, value,
                                  CHOOSE o \in Orders(view.show_tracks._observers) : TRUE,
                                  IF u.result = "ok" THEN {} ELSE {UpdaterNotify})
    IN  IF s.invoked = <<>>
        THEN [effect |-> Effect([view EXCEPT !.show_tracks = s.state],
                                <<>>, <<>>, <<>>, <<>>, "ok"),
              called |-> s.invoked, result |-> s.result]
        ELSE [effect |-> [u EXCEPT !.view.show_tracks = s.state],
              called |-> s.invoked, result |-> s.result]

\* The track list subject of the datastore tells its observers which tracks
\* changed; it is the twin of SectionListSubject.
TrackListSubject_notify(view, datastore_, tracks, order, raises) ==
    IF Updater \in datastore_.track_observers
    THEN TrackImageUpdater_notify_tracks(view, datastore_, tracks, order, raises)
    ELSE Effect(view, <<>>, <<>>, <<>>, <<>>, "ok")

Logged(effect) ==
    [fetched |-> effect.fetched, plotted |-> effect.plotted,
     published |-> effect.published, notified |-> effect.invoked,
     result |-> effect.result]

NothingLogged ==
    [fetched |-> <<>>, plotted |-> <<>>, published |-> <<>>, notified |-> <<>>,
     result |-> "ok"]

\* The datastores a behaviour can run against: the tracks in the order
\* get_all_tracks yields them, and the tracks a frame can be fetched for
\* (none, or the first or the second of the tracks).
Datastores ==
    [tracks : {<<>>} \cup Orders(TrackIds),
     images : {{}, {"t1"}},
     sections : {SectionIds},
     track_observers : {{}}]

NoDatastore == [tracks |-> <<>>, images |-> {}, sections |-> {}, track_observers |-> {}]

\* The observers of background_image: the canvas that shows it.
ImageObservers == {"o1"}

ConstructTrackImageUpdater ==
    /\ under_test = Updater
    /\ ~track_image_updater.constructed
    /\ LET r == TrackImageUpdater_init(track_view_state, datastore)
       IN  /\ track_view_state' = r.view
           /\ datastore' = r.datastore
    /\ track_image_updater' = [constructed |-> TRUE]
    /\ updater_log' = NothingLogged
    /\ last' = Call("TrackImageUpdater", Updater, None, track_view_state,
                    {}, {}, <<>>, "ok", None)
    /\ UNCHANGED <<under_test, core, plugin_vars, nested_vars, binding_vars, repository_vars>>

BackgroundImageRegister ==
    /\ under_test = Updater
    /\ \E o \in ImageObservers :
        /\ track_view_state' =
              [track_view_state EXCEPT !.background_image = BindableProperty_register(@, o)]
        /\ last' = Call("register", "background_image", o, track_view_state,
                        track_view_state.background_image._observers, {}, <<>>, "ok", None)
    /\ updater_log' = NothingLogged
    /\ UNCHANGED <<under_test, core, plugin_vars, nested_vars, binding_vars, repository_vars, datastore, track_image_updater>>

\* The application's wiring registers an updater for track list changes.
RegisterTracksObserver ==
    /\ under_test = Updater
    /\ track_image_updater.constructed
    /\ datastore' = [datastore EXCEPT !.track_observers = SetAdd(@, Updater)]
    /\ last' = Call("register_tracks_observer", "Datastore", Updater, track_view_state,
                    datastore.track_observers, {}, <<>>, "ok", None)
    /\ updater_log' = NothingLogged
    /\ UNCHANGED <<under_test, core, plugin_vars, nested_vars, binding_vars, repository_vars, track_view_state,
                   track_image_updater>>

ShowTracksSet ==
    /\ under_test = Updater
    /\ \E value \in {"True", "False", None},
          order \in Orders(track_view_state.background_image._observers),
          raises \in SUBSET track_view_state.background_image._observers :
        LET r == TrackViewState_show_tracks_set(track_view_state, datastore, value,
                                                order, raises)
        IN  /\ track_view_state' = r.effect.view
            /\ updater_log' = Logged(r.effect)
            /\ last' = Call("set", "show_tracks", value, track_view_state,
                            track_view_state.show_tracks._observers,
                            IF r.result = "ok" THEN {} ELSE {UpdaterNotify},
                            r.called, r.result, None)
    /\ UNCHANGED <<under_test, core, plugin_vars, nested_vars, binding_vars, repository_vars, datastore, track_image_updater>>

UpdaterNotifyTracks ==
    /\ under_test = Updater
    /\ track_image_updater.constructed
    /\ \E tracks \in Lists(TrackIds),
          order \in Orders(track_view_state.background_image._observers),
          raises \in SUBSET track_view_state.background_image._observers :
        LET r == TrackImageUpdater_notify_tracks(track_view_state, datastore, tracks,
                                                 order, raises)
        IN  /\ track_view_state' = r.view
            /\ updater_log' = Logged(r)
            /\ last' = Call("notify_tracks", Updater, tracks, track_view_state,
                            track_view_state.background_image._observers, raises,
                            r.invoked, r.result, None)
    /\ UNCHANGED <<under_test, core, plugin_vars, nested_vars, binding_vars, repository_vars, datastore, track_image_updater>>

TrackListChanged ==
    /\ under_test = Updater
    /\ \E tracks \in Lists(TrackIds),
          order \in Orders(track_view_state.background_image._observers),
          raises \in SUBSET track_view_state.background_image._observers :
        LET r == TrackListSubject_notify(track_view_state, datastore, tracks,
                                         order, raises)
        IN  /\ track_view_state' = r.view
            /\ updater_log' = Logged(r)
            /\ last' = Call("notify", "TrackListSubject", tracks, track_view_state,
                            datastore.track_observers,
                            IF r.result = "ok" THEN {} ELSE {Updater},
                            [i \in 1..Cardinality(datastore.track_observers) |->
                                <<Updater, tracks>>],
                            IF r.result = "ok" THEN "ok" ELSE "ObserverError", None)
    /\ UNCHANGED <<under_test, core, plugin_vars, nested_vars, binding_vars, repository_vars, datastore, track_image_updater>>

-----------------------------------------------------------------------------
(* Bound cells.  An observer of a BindableProperty may be the set method of *)
(* another cell (a.register(b.set)), so that a set on one cell sets the     *)
(* next from inside its notification.  Here a call is not one step: the     *)
(* stack holds a frame for every set that has been entered and has not      *)
(* returned, with the observers its comprehension has still to call.        *)
(* Python runs the calls one by one and never skips one.                    *)

Cells == {"a", "b", "c"}

\* set entered: the value is stored, the comprehension is about to iterate
\* the observers in the given order.  Variant: a set that finds its value
\* already stored notifies nobody.
BindableProperty_set_entered_guarded(p, value, order) ==
    [state |-> BindableProperty_set(p, value, <<>>, {}).state,
     frame |-> [value |-> value,
                pending |-> IF p._property = value THEN <<>> ELSE order]]

BindableProperty_set_entered(p, value, order) ==
    [state |-> BindableProperty_set(p, value, <<>>, {}).state,
     frame |-> [value |-> value, pending |-> order]]

Top == stack[Len(stack)]

Bindings == {<<x, y>> \in Cells \X Cells : y \in cells[x]._observers}

\* x.register(y.set), between calls.
Bind ==
    /\ under_test = "Bindings"
    /\ stack = <<>>
    /\ Cardinality(Bindings) < MaxBindings
    /\ \E x \in Cells, y \in Cells :
        /\ y \notin cells[x]._observers
        /\ cells' = [cells EXCEPT ![x] = BindableProperty_register(@, y)]
    /\ UNCHANGED <<under_test, core, plugin_vars, nested_vars, repository_vars, view_vars, stack, last>>

\* The caller calls x.set(value).
SetCalled ==
    /\ under_test = "Bindings"
    /\ stack = <<>>
    /\ \E x \in Cells : \E order \in Orders(cells[x]._observers) :
        LET entered == BindableProperty_set_entered(cells[x], "v1", order)
        IN  /\ cells' = [cells EXCEPT ![x] = entered.state]
            /\ stack' = << [cell |-> x] @@ entered.frame >>
    /\ UNCHANGED <<under_test, core, plugin_vars, nested_vars, repository_vars, view_vars, last>>

\* The comprehension of the innermost set calls its next observer, which is
\* the set of another cell.
ObserverCalled ==
    /\ under_test = "Bindings"
    /\ stack # <<>>
    /\ Top.pending # <<>>
    /\ Len(stack) < MaxDepth
    /\ LET y == Head(Top.pending)
       IN  \E order \in Orders(cells[y]._observers) :
            LET entered == BindableProperty_set_entered(cells[y], Top.value, order)
            IN  /\ cells' = [cells EXCEPT ![y] = entered.state]
                /\ stack' = [stack EXCEPT ![Len(stack)].pending = Tail(@)]
                               \o << [cell |-> y] @@ entered.frame >>
    /\ UNCHANGED <<under_test, core, plugin_vars, nested_vars, repository_vars, view_vars, last>>

\* The comprehension of the innermost set is through: the set returns.
SetReturned ==
    /\ under_test = "Bindings"
    /\ stack # <<>>
    /\ Top.pending = <<>>
    /\ stack' = SubSeq(stack, 1, Len(stack) - 1)
    /\ UNCHANGED <<under_test, core, plugin_vars, nested_vars, repository_vars, view_vars, cells, last>>

-----------------------------------------------------------------------------
(* LineSectionGeometryBuilder (plugin_ui/line_section.py).  The builder is  *)
(* a canvas observer: the event handler of the canvas calls update with the *)
(* coordinates and the type of each event.  Its collaborators (view model,  *)
(* event handler, drawer, updater and deleter of the temporary line) are    *)
(* called and return; a call is recorded with its callee and arguments.     *)
(* An attribute that is None or a point is a set of at most one point.      *)

TEMPORARY_SECTION_ID == "temporary_section"

CanvasPoints == {<<x, y>> : x \in 0..MaxPixel, y \in 0..1}

EventTypes == {"left_mousebutton_up", "mouse_motion", "left_mousebutton_down"}

Asks(callee, args) == [callee |-> callee, args |-> args]

\* The outcome of a builder method: the builder after it, the calls it made
\* on its collaborators, in order, and how it ended.
Built(state, calls, result) == [state |-> state, calls |-> calls, result |-> result]

\* The point an attribute holds.
PointOf(attribute) == CHOOSE point \in attribute : TRUE

LineSectionGeometryBuilder_setup(self) ==
    Built(self, <<Asks("attach_to", <<"event_handler">>)>>, "ok")

LineSectionGeometryBuilder_init ==
    LineSectionGeometryBuilder_setup(
        [temporary_id |-> TEMPORARY_SECTION_ID, point0 |-> {}, point1_tmp |-> {},
         point1 |-> {}])

LineSectionGeometryBuilder_set_point0(self, coordinates) ==
    Built([self EXCEPT !.point0 = {coordinates}], <<>>, "ok")

LineSectionGeometryBuilder_set_tmp_point(self, coordinates) ==
    IF self.point0 = {} THEN Built(self, <<>>, "ValueError")
    ELSE Built([self EXCEPT !.point1_tmp = {coordinates}],
               IF self.point1_tmp = {}
               THEN <<Asks("line_section_drawer.draw_section",
                           <<"temporary_line_section", self.temporary_id,
                             PointOf(self.point0), coordinates, "red">>)>>
               ELSE <<Asks("line_section_updater.update_section",
                           <<self.temporary_id, PointOf(self.point0), coordinates>>)>>,
               "ok")

LineSectionGeometryBuilder_teardown(self) ==
    Built(self,
          <<Asks("detach_from", <<"event_handler">>),
            Asks("line_section_deleter.delete_sections", <<"temporary_line_section">>)>>,
          "ok")

\* Variant: the builder stays attached and the temporary line stays drawn.
LineSectionGeometryBuilder_finish_building_attached(self) ==
    IF self.point0 = {} \/ self.point1 = {} THEN Built(self, <<>>, "ValueError")
    ELSE Built(self,
               <<Asks("view_model.set_new_section_geometry",
                      <<PointOf(self.point0), PointOf(self.point1)>>)>>,
               "ok")

LineSectionGeometryBuilder_finish_building(self) ==
    IF self.point0 = {} \/ self.point1 = {} THEN Built(self, <<>>, "ValueError")
    ELSE Built(self,
               <<Asks("view_model.set_new_section_geometry",
                      <<PointOf(self.point0), PointOf(self.point1)>>)>>
                   \o LineSectionGeometryBuilder_teardown(self).calls,
               "ok")

LineSectionGeometryBuilder_set_point1(self, coordinates) ==
    LineSectionGeometryBuilder_finish_building([self EXCEPT !.point1 = {coordinates}])

LineSectionGeometryBuilder_update(self, coordinates, event_type) ==
    IF self.point0 = {} /\ event_type = "left_mousebutton_up"
    THEN LineSectionGeometryBuilder_set_point0(self, coordinates)
    ELSE IF self.point0 # {} /\ event_type = "mouse_motion"
    THEN LineSectionGeometryBuilder_set_tmp_point(self, coordinates)
    ELSE IF self.point0 # {} /\ event_type = "left_mousebutton_up"
    THEN LineSectionGeometryBuilder_set_point1(self, coordinates)
    ELSE Built(self, <<>>, "ok")

\* The record of what has been asked so far: whether the builder is
\* attached to the event handler, whether the temporary line is drawn, how
\* often a section geometry was handed to the view model, how many events
\* arrived, and where the mouse button was released first and how often.
NothingAsked ==
    [attached |-> FALSE, drawn |-> FALSE, requested |-> 0, events |-> 0,
     first_up |-> {}, ups |-> 0]

RECURSIVE Asked(_, _, _)
Asked(log, calls, released) ==
    IF calls # <<>>
    THEN LET callee == Head(calls).callee
         IN  Asked([log EXCEPT
                      !.attached = IF callee = "attach_to" THEN TRUE
                                   ELSE IF callee = "detach_from" THEN FALSE ELSE @,
                      !.drawn = IF callee = "line_section_drawer.draw_section" THEN TRUE
                                ELSE IF callee = "line_section_deleter.delete_sections"
                                     THEN FALSE ELSE @,
                      !.requested = IF callee = "view_model.set_new_section_geometry"
                                    THEN @ + 1 ELSE @],
                   Tail(calls), released)
    ELSE [log EXCEPT !.first_up = IF @ = {} THEN released ELSE @,
                     !.ups = @ + Cardinality(released)]

\* A canvas event reaches the builder.
BuilderUpdate ==
    /\ under_test = "LineSectionGeometryBuilder"
    /\ canvas_log.events < MaxEvents
    /\ \E coordinates \in CanvasPoints, event_type \in EventTypes :
        LET r == LineSectionGeometryBuilder_update(builder, coordinates, event_type)
            released == IF event_type = "left_mousebutton_up" THEN {coordinates} ELSE {}
        IN  /\ builder' = r.state
            /\ canvas_log' = [Asked(canvas_log, r.calls, released) EXCEPT
                                 !.events = canvas_log.events + 1]
            /\ last' = Call("update", "LineSectionGeometryBuilder",
                            <<coordinates, event_type>>, builder, {}, {}, r.calls,
                            r.result, None)
    /\ UNCHANGED <<under_test, core, repository_vars, view_vars, binding_vars,
                   nested_vars>>

-----------------------------------------------------------------------------
(* Selection from inside a notification.  An observer of a TrackState or    *)
(* SectionState is a callback of the application and may call select on the *)
(* state that is notifying it; the call runs inside the delivery that is    *)
(* under way.  One step is one select entered, one observer called, or one  *)
(* select returned.  How an observer reacts to a notification is fixed when *)
(* it registers: it ignores it, selects again what it was told, or selects  *)
(* an id of its own.  A frame is a delivery under way: the value being      *)
(* delivered, the iteration order of the observer set, and the observers    *)
(* still to be called.                                                      *)

IdsOf(obj) == IF obj = "TrackState" THEN TrackIds ELSE SectionIds

Reaction(kind, target) == [kind |-> kind, target |-> target]

Reactions(obj) ==
    {Reaction("ignore", None), Reaction("reselect", None)}
        \cup {Reaction("select", id) : id \in IdsOf(obj)}

NoReentry ==
    [reaction |-> [o \in Observers |-> Reaction("ignore", None)],
     received |-> [o \in Observers |-> <<>>],
     changes |-> 0]

\* The select an observer makes when it is told value, if it makes one.
SelectedInReaction(reaction, value) ==
    IF reaction.kind = "reselect" THEN {value}
    ELSE IF reaction.kind = "select" THEN {reaction.target}
    ELSE {}

\* Variant: select assigns and notifies without comparing.
TrackState_select_entered_unconditional(ts, track_id, order) ==
    [state |-> [ts EXCEPT !.selected_track = track_id],
     entered |-> <<[value |-> track_id, order |-> order, pending |-> order]>>]

\* select up to the first observer called: the comparison, the assignment,
\* and the delivery of the selection just assigned begun.
TrackState_select_entered(ts, track_id, order) ==
    IF ts.selected_track # track_id
    THEN LET selected == [ts EXCEPT !.selected_track = track_id]
         IN  [state |-> selected,
              entered |-> <<[value |-> selected.selected_track, order |-> order,
                             pending |-> order]>>]
    ELSE [state |-> ts, entered |-> <<>>]

SectionState_select_entered(ss, section_id, order) ==
    IF ss.selected_section # section_id
    THEN LET selected == [ss EXCEPT !.selected_section = section_id]
         IN  [state |-> selected,
              entered |-> <<[value |-> selected.selected_section, order |-> order,
                             pending |-> order]>>]
    ELSE [state |-> ss, entered |-> <<>>]

\* The state the behaviour drives.
SelectionOfDriven ==
    IF under_test = "TrackState" THEN track_state.selected_track
    ELSE section_state.selected_section

ObserversOfDriven ==
    IF under_test = "TrackState" THEN track_state.observers
    ELSE section_state.observers

\* An observer registers while no call is under way.
ReactingObserverRegisters ==
    /\ frames = <<>>
    /\ \E o \in Observers, reaction \in Reactions(under_test) :
        /\ o \notin ObserversOfDriven
        /\ IF under_test = "TrackState"
           THEN /\ track_state' = TrackState_register(track_state, o)
                /\ section_state' = section_state
           ELSE /\ section_state' = SectionState_register(section_state, o)
                /\ track_state' = track_state
        /\ reentry' = [reentry EXCEPT !.reaction[o] = reaction]
        /\ last' = Call("register", under_test, o, SelectionOfDriven,
                        ObserversOfDriven, {}, <<>>, "ok", None)
    /\ UNCHANGED <<under_test, subjects, bindable_property, property_log,
                   repository_vars, view_vars, binding_vars, plugin_vars, frames>>

\* The application calls select while no call is under way.
OutermostSelectCalled ==
    /\ frames = <<>>
    /\ \E id \in IdsOf(under_test), order \in Orders(ObserversOfDriven) :
        /\ LET r == IF under_test = "TrackState"
                    THEN TrackState_select_entered(track_state, id, order)
                    ELSE SectionState_select_entered(section_state, id, order)
           IN  /\ IF under_test = "TrackState"
                  THEN track_state' = r.state /\ section_state' = section_state
                  ELSE section_state' = r.state /\ track_state' = track_state
               /\ frames' = r.entered
               /\ reentry' = [reentry EXCEPT
                                 !.received = [o \in Observers |-> <<>>],
                                 !.changes = Len(r.entered)]
        /\ last' = Call("select", under_test, id, SelectionOfDriven,
                        ObserversOfDriven, {}, <<>>, "ok", None)
    /\ UNCHANGED <<under_test, subjects, bindable_property, property_log,
                   repository_vars, view_vars, binding_vars, plugin_vars>>

\* The delivery under way calls its next observer, which reacts inside the
\* call: a select it makes is entered before the delivery goes on.
ObserverNotified ==
    /\ frames # <<>>
    /\ frames[Len(frames)].pending # <<>>
    /\ Len(frames) < MaxDepth
    /\ LET top == frames[Len(frames)]
           o == Head(top.pending)
           called == [frames EXCEPT ![Len(frames)].pending = Tail(@)]
           selects == SelectedInReaction(reentry.reaction[o], top.value)
           r == IF selects = {} THEN [state |-> None, entered |-> <<>>]
                ELSE IF under_test = "TrackState"
                THEN TrackState_select_entered(track_state,
                                               CHOOSE id \in selects : TRUE, top.order)
                ELSE SectionState_select_entered(section_state,
                                                 CHOOSE id \in selects : TRUE, top.order)
       IN  /\ frames' = called \o r.entered
           /\ reentry' = [reentry EXCEPT !.received[o] = Append(@, top.value),
                                         !.changes = @ + Len(r.entered)]
           /\ IF selects = {}
              THEN track_state' = track_state /\ section_state' = section_state
              ELSE IF under_test = "TrackState"
              THEN track_state' = r.state /\ section_state' = section_state
              ELSE section_state' = r.state /\ track_state' = track_state
    /\ UNCHANGED <<under_test, subjects, bindable_property, property_log,
                   repository_vars, view_vars, binding_vars, plugin_vars, last>>

\* A delivery that has called all its observers is over: the select that
\* made it returns to the observer, or to the application, that called it.
SelectReturned ==
    /\ frames # <<>>
    /\ frames[Len(frames)].pending = <<>>
    /\ frames' = SubSeq(frames, 1, Len(frames) - 1)
    /\ UNCHANGED <<under_test, core, repository_vars, view_vars, binding_vars,
                   plugin_vars, reentry, last>>

-----------------------------------------------------------------------------

\* The two selection states.
SelectionStates == {"TrackState", "SectionState"}

Components ==
    SubjectKinds \cup {"BindableProperty", "TrackState", "SectionState", "LineSection",
                       "Area", "SectionRepository", Updater}

\* The objects as their constructors leave them; a behaviour drives one.
Start(components) ==
    /\ under_test \in components
    /\ track_state = [selected_track |-> None, observers |-> {}]
    /\ section_state = [selected_section |-> None, observers |-> {}]
    /\ subjects = [k \in SubjectKinds |-> [observers |-> {}]]
    /\ bindable_property = [_property |-> None, _observers |-> {}]
    /\ property_log = [sets |-> <<>>, received |-> [o \in Observers |-> <<>>],
                       registered_at |-> [o \in Observers |-> -1], raised |-> FALSE,
                       read |-> <<>>]
    /\ section_repository = [_sections |-> {}]
    /\ repository_log = [latest |-> [id \in SectionIds |-> {}], mutations |-> 0]
    /\ track_view_state = TrackViewState_init
    /\ datastore \in (IF under_test = Updater THEN Datastores ELSE {NoDatastore})
    /\ track_image_updater = [constructed |-> FALSE]
    /\ updater_log = NothingLogged
    /\ cells = [x \in Cells |-> BindableProperty_init]
    /\ stack = <<>>
    /\ builder = LineSectionGeometryBuilder_init.state
    /\ canvas_log = Asked(NothingAsked, LineSectionGeometryBuilder_init.calls, {})
    /\ frames = <<>>
    /\ reentry = NoReentry
    /\ last = NoCall

Init == Start(Components)

Next ==
    \/ SubjectRegister
    \/ SubjectNotify
    \/ PropertyRegister
    \/ PropertySet
    \/ PropertyGet
    \/ TrackRegister
    \/ TrackSelect
    \/ TrackNotifyTracks
    \/ SectionRegister
    \/ SectionSelect
    \/ SectionNotifySections
    \/ ConstructLineSection
    \/ ConstructArea
    \/ RepositoryAdd
    \/ RepositoryAddAll
    \/ RepositoryGetAll
    \/ RepositoryRemove
    \/ HolderAssignsField
    \/ HolderAppendsCoordinate
    \/ HolderPopsCoordinate    \/ SectionToDict

    \/ ConstructTrackImageUpdater
    \/ BackgroundImageRegister
    \/ RegisterTracksObserver
    \/ ShowTracksSet
    \/ UpdaterNotifyTracks
    \/ TrackListChanged

Spec == Init /\ [][Next]_vars

\* Bound cells on their own.  The interpreter goes on with a call that is
\* under way; nothing obliges the caller to bind or to set.
BindingInit == Start({"Bindings"})

Running == ObserverCalled \/ SetReturned

BindingNext ==
    \/ Bind
    \/ SetCalled
    \/ ObserverCalled
    \/ SetReturned

BindingSpec == BindingInit /\ [][BindingNext]_vars /\ WF_vars(Running)

\* A builder on its own, from its construction on.
BuilderInit == Start({"LineSectionGeometryBuilder"})

BuilderNext == BuilderUpdate

BuilderSpec == BuilderInit /\ [][BuilderNext]_vars

\* A selection state whose observers react, on its own.  The interpreter
\* goes on with a call that is under way.
NestedInit == Start(SelectionStates)

Delivery == ObserverNotified \/ SelectReturned

NestedNext ==
    \/ ReactingObserverRegisters
    \/ OutermostSelectCalled
    \/ ObserverNotified
    \/ SelectReturned

NestedSpec == NestedInit /\ [][NestedNext]_vars /\ WF_vars(Delivery)

-----------------------------------------------------------------------------
(* Vocabulary of the properties.                                            *)

\* The current selection / value and registration set of the object driven.
SelectionOf(obj) ==
    IF obj = "TrackState" THEN track_state.selected_track
    ELSE section_state.selected_section

ObserversOf(obj) ==
    CASE obj = "TrackState" -> track_state.observers
      [] obj = "SectionState" -> section_state.observers
      [] obj = "BindableProperty" -> bindable_property._observers
      [] obj = "background_image" -> track_view_state.background_image._observers
      [] obj = "show_tracks" -> track_view_state.show_tracks._observers
      [] obj \in SubjectKinds -> subjects[obj].observers

\* The calls that deliver notifications.
Delivering(call) == call.op \in {"notify", "set", "select", "notify_list"}

\* How often the call invoked observer o.
TimesInvoked(call, o) == Len(SeenBy(o, call.invoked))

\* Every observer registered at the call was invoked exactly once, with v,
\* and nobody else was invoked.
DeliveredToAll(call, v) ==
    /\ Len(call.invoked) = Cardinality(call.observers)
    /\ \A i \in 1..Len(call.invoked) : call.invoked[i][1] \in call.observers
    /\ \A o \in call.observers : SeenBy(o, call.invoked) = <<v>>

\* Some observer invoked by the call raised.
SomeInvokedRaised(call) ==
    \E i \in 1..Len(call.invoked) : call.invoked[i][1] \in call.raises

-----------------------------------------------------------------------------
\* A select(x) with x already selected: nothing changes, nothing is delivered.
C1_NoOp ==
    (last.obj \in SelectionStates /\ last.op = "select" /\ last.arg = last.pre) =>
        /\ SelectionOf(last.obj) = last.pre
        /\ ObserversOf(last.obj) = last.observers
        /\ last.invoked = <<>>
        /\ last.result = "ok"

\* A select(x) that changed the selection, directly followed by select(x).
C1_Twice ==
    (/\ last.obj \in SelectionStates
     /\ last.op = "select" /\ last'.op = "select"
     /\ last'.arg = last.arg
     /\ last.pre # last.arg /\ last.result = "ok") =>
        \A o \in last.observers : TimesInvoked(last, o) + TimesInvoked(last', o) = 1

(* C1: select(x) with x equal to the current selection changes neither the   *)
(* selection nor the registrations, delivers no notification and returns    *)
(* normally, for TrackState and SectionState; and when a select(x) that     *)
(* changed the selection and returned normally is directly followed by      *)
(* another select(x), the two calls together have notified every registered *)
(* observer exactly once.                                                   *)
C1_SelectSameIsNoOp == [][C1_NoOp' /\ C1_Twice]_vars

C1_Witness ==
    /\ last.obj \in SelectionStates /\ last.op = "select"
    /\ last.arg = last.pre /\ last.arg # None
    /\ Cardinality(last.observers) = 2

\* A select(x) with x not the current selection.
C2_Post ==
    (last.obj \in SelectionStates /\ last.op = "select" /\ last.arg # last.pre) =>
        /\ SelectionOf(last.obj) = last.arg
        /\ ObserversOf(last.obj) = last.observers
        /\ last.result = "ok" => DeliveredToAll(last, last.arg)

\* A select(a) that changed the selection, directly followed by select(b), b # a.
C2_Twice ==
    (/\ last.obj \in SelectionStates
     /\ last.op = "select" /\ last'.op = "select"
     /\ last.pre # last.arg /\ last'.arg # last.arg
     /\ last.result = "ok" /\ last'.result = "ok") =>
        /\ SelectionOf(last.obj)' = last'.arg
        /\ \A o \in last.observers :
              SeenBy(o, last.invoked) \o SeenBy(o, last'.invoked) = <<last.arg, last'.arg>>

(* C2: select(x) with x different from the current selection sets the       *)
(* selection to x and, when it returns normally, has invoked every          *)
(* registered observer exactly once with x; select(a) changing the          *)
(* selection followed directly by select(b), a # b, both returning          *)
(* normally, have told every registered observer a and then b, and the      *)
(* selection is b.                                                          *)
C2_SelectOtherNotifies == [][C2_Post' /\ C2_Twice]_vars

C2_Witness ==
    /\ last.obj \in SelectionStates /\ last.op = "select"
    /\ last.pre \notin {None, last.arg} /\ last.arg # None
    /\ Cardinality(last.observers) = 2
    /\ last.result = "ok"

(* C3: notify_tracks / notify_sections with an empty list ends with the     *)
(* empty-input error (IndexError), leaves the selection and the             *)
(* registrations as they were and invokes no observer.                      *)
C3_EmptyListFails ==
    (last.obj \in SelectionStates /\ last.op = "notify_list" /\ last.arg = <<>>) =>
        /\ last.result = "IndexError"
        /\ SelectionOf(last.obj) = last.pre
        /\ ObserversOf(last.obj) = last.observers
        /\ last.invoked = <<>>

C3_Witness ==
    /\ last.obj \in SelectionStates /\ last.op = "notify_list" /\ last.arg = <<>>
    /\ last.pre # None
    /\ last.observers # {}

(* C4: notify_tracks / notify_sections with a non-empty list acts as        *)
(* select(list[0]): the selection becomes the first element whatever the    *)
(* other elements and the previous selection; no observer is invoked when   *)
(* the first element is the previous selection; otherwise observers are     *)
(* invoked with the first element only, all of them exactly once when the   *)
(* call returns normally; the call never ends with the empty-input error.   *)
C4_FirstElementSelected ==
    (last.obj \in SelectionStates /\ last.op = "notify_list" /\ last.arg # <<>>) =>
        /\ SelectionOf(last.obj) = last.arg[1]
        /\ ObserversOf(last.obj) = last.observers
        /\ last.result # "IndexError"
        /\ last.arg[1] = last.pre => (last.invoked = <<>> /\ last.result = "ok")
        /\ \A i \in 1..Len(last.invoked) : last.invoked[i][2] = last.arg[1]
        /\ (last.arg[1] # last.pre /\ last.result = "ok") =>
              DeliveredToAll(last, last.arg[1])

C4_Witness ==
    /\ last.obj \in SelectionStates /\ last.op = "notify_list"
    /\ Len(last.arg) = 2 /\ last.arg[2] # last.arg[1]
    /\ last.pre = last.arg[2]
    /\ Cardinality(last.observers) = 2
    /\ last.result = "ok"

(* C5: a notify(v) on a Subject, SectionSubject or SectionListSubject none  *)
(* of whose observers raises returns normally having invoked every observer *)
(* registered at the call exactly once with v, in whatever order the set is *)
(* iterated; no call ever invokes an observer that is not registered.       *)
C5_NotifyReachesAll ==
    (last.obj \in SubjectKinds /\ last.op = "notify") =>
        /\ \A i \in 1..Len(last.invoked) : last.invoked[i][1] \in last.observers
        /\ last.raises = {} => (last.result = "ok" /\ DeliveredToAll(last, last.arg))

C5_Witness ==
    /\ last.obj \in SubjectKinds /\ last.op = "notify"
    /\ Cardinality(last.observers) = 2
    /\ last.raises = {}
    /\ last.invoked[1][1] = "o2" /\ last.invoked[2][1] = "o1"

(* C6: registering an observer leaves the registration set as the set       *)
(* before the call plus that observer, so registering one that is already   *)
(* registered changes nothing; and no call that delivers notifications      *)
(* invokes an observer more than once.                                      *)
C6_RegisterIdempotent ==
    /\ last.op = "register" =>
          /\ ObserversOf(last.obj) = last.observers \cup {last.arg}
          /\ last.arg \in last.observers => ObserversOf(last.obj) = last.observers
          /\ last.invoked = <<>>
    /\ Delivering(last) => \A o \in Observers : TimesInvoked(last, o) <= 1

C6_Witness ==
    /\ last.op = "register" /\ last.obj \in SubjectKinds
    /\ last.arg \in last.observers
    /\ Cardinality(last.observers) = 2

(* C7: when an observer invoked during a delivery raises, the call ends     *)
(* with that failure (notify, and set / select / notify_* through it), the  *)
(* raising observer is the last one invoked, and the observers that had not *)
(* been invoked before it are not invoked at all; a call ends with an       *)
(* observer's failure only if an invoked observer raised.                   *)
C7_FailureAbortsDelivery ==
    Delivering(last) =>
        /\ SomeInvokedRaised(last) =>
              /\ last.result = "ObserverError"
              /\ last.invoked[Len(last.invoked)][1] \in last.raises
              /\ \A i \in 1..(Len(last.invoked) - 1) : last.invoked[i][1] \notin last.raises
              /\ \A o \in last.observers : TimesInvoked(last, o) <= 1
        /\ last.result = "ObserverError" => SomeInvokedRaised(last)
        /\ (last.raises = last.observers /\ last.invoked # <<>>) => Len(last.invoked) = 1

C7_Witness ==
    /\ last.obj = "Subject" /\ last.op = "notify"
    /\ Cardinality(last.observers) = 2
    /\ Cardinality(last.raises) = 1
    /\ Len(last.invoked) = 1
    /\ last.result = "ObserverError"

\* The value passed to the most recent set call.
LatestSet ==
    IF property_log.sets = <<>> THEN None
    ELSE property_log.sets[Len(property_log.sets)]

(* C8: the bindable property holds the value passed to the most recent set  *)
(* call, or None when set was never called, whatever registers and          *)
(* failing observers came in between; get returns that value and leaves     *)
(* the property as it was.                                                  *)
C8_GetReturnsLatestSet ==
    /\ BindableProperty_get(bindable_property) = LatestSet
    /\ (last.obj = "BindableProperty" /\ last.op = "get") =>
          /\ last.returned = LatestSet
          /\ bindable_property = last.pre
          /\ last.invoked = <<>>

C8_Witness ==
    /\ last.obj = "BindableProperty" /\ last.op = "get"
    /\ Len(property_log.sets) >= 2
    /\ property_log.sets[Len(property_log.sets)] # property_log.sets[Len(property_log.sets) - 1]
    /\ last.returned = property_log.sets[Len(property_log.sets)]
    /\ bindable_property._observers # {}

(* C9: a set(v) that returns normally has invoked every registered observer *)
(* exactly once with v, also when v is the value already stored; as long as *)
(* every set call returned normally, each registered observer has received  *)
(* exactly the values of the set calls made since it registered, one per    *)
(* call and in call order.                                                  *)
C9_SetAlwaysNotifies ==
    /\ (last.obj = "BindableProperty" /\ last.op = "set" /\ last.result = "ok") =>
          DeliveredToAll(last, last.arg)
    /\ ~property_log.raised =>
          \A o \in bindable_property._observers :
              property_log.received[o] =
                  SubSeq(property_log.sets, property_log.registered_at[o] + 1,
                         Len(property_log.sets))

C9_Witness ==
    /\ last.obj = "BindableProperty" /\ last.op = "set"
    /\ last.arg = last.pre._property /\ last.arg # None
    /\ last.result = "ok"
    /\ property_log.registered_at["o1"] = 0
    /\ property_log.received["o1"] = <<last.arg, last.arg, last.arg>>

(* C10: constructing a LineSection succeeds exactly when start and end      *)
(* differ as coordinates (in x or in y), and then yields the section with   *)
(* the id, start and end given; with start = end it ends with the geometry  *)
(* error (ValueError) and yields no section value.                          *)
C10_LineSectionValidated ==
    (last.obj = "LineSection" /\ last.op = "LineSection") =>
        LET id == last.arg[1]
            start == last.arg[2]
            end == last.arg[3]
        IN  /\ last.result = "ok" <=> (start.x # end.x \/ start.y # end.y)
            /\ last.result = "ok" =>
                  last.returned = {[variant |-> "LineSection", id |-> id,
                                    start |-> start, end |-> end]}
            /\ last.result # "ok" => (last.result = "ValueError" /\ last.returned = {})

C10_Witness ==
    /\ last.obj = "LineSection" /\ last.op = "LineSection"
    /\ last.arg[2] = last.arg[3]
    /\ last.result = "ValueError"
    /\ last.returned = {}

(* C11: constructing an Area succeeds exactly when the coordinate list has  *)
(* at least four entries and its first and last entries are equal           *)
(* coordinates; the area then holds the list exactly as given (nothing is   *)
(* appended to close it).  Otherwise the construction ends with the         *)
(* geometry error (ValueError) and yields no section value.                 *)
C11_AreaValidated ==
    (last.obj = "Area" /\ last.op = "Area") =>
        LET id == last.arg[1]
            cs == last.arg[2]
            closed == /\ Len(cs) >= 4
                      /\ cs[1].x = cs[Len(cs)].x
                      /\ cs[1].y = cs[Len(cs)].y
        IN  /\ last.result = "ok" <=> closed
            /\ last.result = "ok" =>
                  last.returned = {[variant |-> "Area", id |-> id, coordinates |-> cs]}
            /\ last.result # "ok" => (last.result = "ValueError" /\ last.returned = {})

\* Three distinct corners, not closed, are refused; nothing is appended.
C11_Witness ==
    /\ last.obj = "Area" /\ last.op = "Area"
    /\ last.arg[2] = <<Coordinate(0, 0), Coordinate(MaxCoord, 0),
                       Coordinate(MaxCoord, MaxCoord)>>
    /\ last.result = "ValueError"
    /\ last.returned = {}

\* The geometry invariant of a section, by variant.
GeometryInvariant(section) ==
    IF section.variant = "LineSection"
    THEN section.start.x # section.end.x \/ section.start.y # section.end.y
    ELSE /\ Len(section.coordinates) >= 4
         /\ section.coordinates[1] = section.coordinates[Len(section.coordinates)]

(* C12: every section that exists, in particular every section held by the  *)
(* repository, satisfies the geometry invariant of its variant at all       *)
(* times: nothing a holder can do to a constructed section, operations on   *)
(* its coordinate list included, makes it invalid.                          *)
C12_SectionsStayValid ==
    \A section \in SectionRepository_get_all(section_repository) :
        GeometryInvariant(section)

\* The sections the repository holds under an id (none or one).
HeldUnder(self, id) == {item.value : item \in {i \in self._sections : i.key = id}}

(* C13: SectionRepository.add is an upsert keyed by the section's id.  It   *)
(* always succeeds; with the id absent it inserts the section, with the id  *)
(* present it replaces the stored section by the new one; the entries of    *)
(* other ids stay as they were.  At all times the repository holds exactly  *)
(* one entry per id added and not removed: the section passed to the most   *)
(* recent add with that id.                                                 *)
C13_AddIsUpsert ==
    /\ \A id \in SectionIds :
          /\ Cardinality(HeldUnder(section_repository, id)) <= 1
          /\ HeldUnder(section_repository, id) = repository_log.latest[id]
    /\ (last.obj = "SectionRepository" /\ last.op = "add") =>
          /\ last.result = "ok"
          /\ HeldUnder(section_repository, last.arg.id) = {last.arg}
          /\ \A id \in SectionIds \ {last.arg.id} :
                HeldUnder(section_repository, id) = HeldUnder(last.pre, id)

\* An add that replaced a different section stored under the same id, with
\* another id present.
C13_Witness ==
    /\ last.obj = "SectionRepository" /\ last.op = "add"
    /\ HeldUnder(last.pre, last.arg.id) # {}
    /\ HeldUnder(last.pre, last.arg.id) # {last.arg}
    /\ Keys(section_repository._sections) = SectionIds
    /\ HeldUnder(section_repository, last.arg.id) = {last.arg}

(* C14: SectionRepository.remove ends with the not-found error (KeyError)   *)
(* and leaves the repository unchanged when the section's id is absent;     *)
(* otherwise it removes exactly the entry of that id.                       *)
C14_RemoveByIdOrFail ==
    (last.obj = "SectionRepository" /\ last.op = "remove") =>
        IF last.arg.id \in Keys(last.pre._sections)
        THEN /\ last.result = "ok"
             /\ HeldUnder(section_repository, last.arg.id) = {}
             /\ \A id \in SectionIds \ {last.arg.id} :
                   HeldUnder(section_repository, id) = HeldUnder(last.pre, id)
             /\ Cardinality(section_repository._sections) =
                   Cardinality(last.pre._sections) - 1
        ELSE /\ last.result = "KeyError"
             /\ section_repository = last.pre

\* A remove of an absent id from a repository that holds another section.
C14_Witness ==
    /\ last.obj = "SectionRepository" /\ last.op = "remove"
    /\ last.arg.id \notin Keys(last.pre._sections)
    /\ last.pre._sections # {}
    /\ last.result = "KeyError"
    /\ section_repository = last.pre

\* The most recent call made the updater react to a change of a non-empty
\* track list, or to a toggle of show_tracks while the datastore has tracks.
ListEvent ==
    \/ last.obj = Updater /\ last.op = "notify_tracks"
    \/ last.obj = "TrackListSubject" /\ last.op = "notify" /\ Updater \in last.observers

ToggleEvent ==
    last.obj = "show_tracks" /\ last.op = "set" /\ UpdaterNotify \in last.observers

TriggeringEvent ==
    \/ ListEvent /\ last.arg # <<>>
    \/ ToggleEvent /\ Datastore_get_all_tracks(datastore) # <<>>

\* The event fetched one frame request, and the datastore had a frame for it.
BaseFrameReturned ==
    /\ Len(updater_log.fetched) = 1
    /\ updater_log.fetched[1] \in datastore.images

(* C15: on every triggering event (notify_tracks with a non-empty list, or  *)
(* a toggle of show_tracks with a non-empty track collection) the updater   *)
(* asks for one frame and calls background_image.set exactly once if a      *)
(* frame is returned, and not at all if none is: then background_image      *)
(* keeps its value and its observers are not notified.                      *)
C15_OneSetPerFrame ==
    TriggeringEvent =>
        /\ Len(updater_log.fetched) = 1
        /\ IF updater_log.fetched[1] \in datastore.images
           THEN Len(updater_log.published) = 1
           ELSE /\ updater_log.published = <<>>
                /\ updater_log.notified = <<>>
                /\ track_view_state.background_image = last.pre.background_image

\* A toggle finds no frame for the track it picks: the image published
\* before stays, and the registered observer hears nothing.
C15_Witness ==
    /\ ToggleEvent
    /\ Datastore_get_all_tracks(datastore) # <<>>
    /\ updater_log.fetched # <<>>
    /\ updater_log.fetched[1] \notin datastore.images
    /\ updater_log.published = <<>>
    /\ track_view_state.background_image._property # {}
    /\ track_view_state.background_image._observers # {}
    /\ updater_log.notified = <<>>

(* C16: when a frame is returned, the published image depends on            *)
(* show_tracks alone.  With show_tracks false or never set, the frame       *)
(* itself is published and the plotter is not called; with show_tracks      *)
(* true, the plotter is called exactly once, with the width and height of   *)
(* the frame, and the frame with the plot laid over it is published.        *)
C16_OverlayFollowsShowTracks ==
    (TriggeringEvent /\ BaseFrameReturned) =>
        LET base == Frame(updater_log.fetched[1])
        IN  IF track_view_state.show_tracks._property = "True"
            THEN /\ Len(updater_log.plotted) = 1
                 /\ updater_log.plotted[1].width = base.width
                 /\ updater_log.plotted[1].height = base.height
                 /\ updater_log.published =
                       << {[base EXCEPT !.overlay = {updater_log.plotted[1]}]} >>
                 /\ track_view_state.background_image._property =
                       {[base EXCEPT !.overlay = {updater_log.plotted[1]}]}
            ELSE /\ updater_log.plotted = <<>>
                 /\ updater_log.published = << {base} >>
                 /\ track_view_state.background_image._property = {base}

\* A list change with show_tracks true: one plot of the size of the frame of
\* the first track, which is wider than high.
C16_Witness ==
    /\ last.obj = Updater /\ last.op = "notify_tracks"
    /\ last.arg = <<"t1", "t2">>
    /\ track_view_state.show_tracks._property = "True"
    /\ Len(updater_log.plotted) = 1
    /\ updater_log.plotted[1].width = 4
    /\ updater_log.plotted[1].height = 2
    /\ track_view_state.background_image._property # {Frame("t1")}
    /\ track_view_state.background_image._property # {}

(* C17: TrackImageUpdater.notify_tracks with an empty list ends with the    *)
(* empty-input error (IndexError) and neither fetches a frame nor sets      *)
(* background_image; with a non-empty list it fetches the frame of the      *)
(* first element only, whatever the other elements and whatever track       *)
(* TrackState has selected.                                                 *)
C17_FirstTrackOnly ==
    (last.obj = Updater /\ last.op = "notify_tracks") =>
        IF last.arg = <<>>
        THEN /\ last.result = "IndexError"
             /\ updater_log.fetched = <<>>
             /\ updater_log.published = <<>>
             /\ track_view_state = last.pre
        ELSE updater_log.fetched = <<last.arg[1]>>

\* TrackState has selected the second element of the list; the frame of the
\* first is fetched, although only the second has one.
C17_Witness ==
    /\ last.obj = Updater /\ last.op = "notify_tracks"
    /\ last.arg = <<"t2", "t1">>
    /\ track_state.selected_track = "t1"
    /\ updater_log.fetched = <<"t2">>
    /\ "t1" \in datastore.images

(* C18: when the track collection is empty, a toggle of show_tracks         *)
(* performs no update of background_image, and the show_tracks.set call     *)
(* completes without raising an error.                                      *)
C18_EmptyToggleIsQuiet ==
    (ToggleEvent /\ Datastore_get_all_tracks(datastore) = <<>>) =>
        /\ last.result = "ok"
        /\ updater_log.published = <<>>
        /\ track_view_state.background_image = last.pre.background_image

\* The most recent call constructed the updater.
Constructed == last.obj = Updater /\ last.op = "TrackImageUpdater"

(* C19, as stated: constructing a TrackImageUpdater registers it both as an *)
(* observer of show_tracks and as an observer of track list changes, so     *)
(* that construction alone makes every track list change reach it.          *)
C19_RegistersForBoth ==
    Constructed =>
        /\ UpdaterNotify \in track_view_state.show_tracks._observers
        /\ Updater \in datastore.track_observers

(* C19, amended: constructing a TrackImageUpdater registers its notify as   *)
(* an observer of show_tracks and registers nothing else.  From then on     *)
(* every show_tracks.set invokes the updater's notify, once, with the value *)
(* set.  A track list change reaches the updater only after the caller has  *)
(* registered it as a track list observer; until then it fetches and        *)
(* publishes nothing.                                                       *)
C19_RegistersForToggleOnly ==
    /\ Constructed =>
          /\ track_view_state.show_tracks._observers =
                last.pre.show_tracks._observers \cup {UpdaterNotify}
          /\ track_view_state.background_image = last.pre.background_image
          /\ datastore.track_observers = {}
    /\ track_image_updater.constructed =>
          UpdaterNotify \in track_view_state.show_tracks._observers
    /\ (last.obj = "show_tracks" /\ last.op = "set" /\ track_image_updater.constructed) =>
          last.invoked = << <<UpdaterNotify, last.arg>> >>
    /\ (last.obj = "TrackListSubject" /\ last.op = "notify"
            /\ Updater \notin last.observers) =>
          /\ last.result = "ok"
          /\ updater_log.fetched = <<>>
          /\ updater_log.published = <<>>
          /\ track_view_state = last.pre

\* The updater exists, the first changed track has a frame, and the track
\* list change passes the updater by.
C19_Witness ==
    /\ last.obj = "TrackListSubject" /\ last.op = "notify"
    /\ track_image_updater.constructed
    /\ Updater \notin last.observers
    /\ last.arg # <<>>
    /\ last.arg[1] \in datastore.images
    /\ updater_log.fetched = <<>>
    /\ track_view_state.background_image._property = {}

\* The cells whose set is called, directly or through further cells, by a
\* set on x.
RECURSIVE Reached(_, _)
Reached(S, n) ==
    IF n = 0 THEN S
    ELSE Reached(S \cup UNION {cells[y]._observers : y \in S}, n - 1)

ReachedFrom(x) == Reached(cells[x]._observers, Cardinality(Cells))

OnCycle(x) == x \in ReachedFrom(x)

Acyclic == \A x \in Cells : ~OnCycle(x)

\* A set call is under way that the caller made on a cell of a cycle.
CycleEntered == stack # <<>> /\ OnCycle(stack[1].cell)

Deserialized(dict) == Coordinate(GetItem(dict, "x"), GetItem(dict, "y"))

\* Two sections are of the same variant and have the same geometry.
SameGeometry(s, t) ==
    /\ s.variant = t.variant
    /\ IF s.variant = "LineSection"
       THEN s.start = t.start /\ s.end = t.end
       ELSE s.coordinates = t.coordinates

\* Two serialized sections of one variant agree on id and geometry.
SameSerialized(d, e) ==
    /\ d.type = e.type
    /\ d.id = e.id
    /\ IF d.type = LINE
       THEN d.start = e.start /\ d.end = e.end
       ELSE d.coordinates = e.coordinates

\* C21: to_dict of a LineSection yields type "line" and the id, start and
\* end of the section; to_dict of an Area yields type "area", the id and the
\* coordinates in their original order.  Hence two sections of one variant
\* whose serialized id and geometry are equal have equal id and geometry.
\* to_dict changes neither the section nor the repository.
C21_SerializationLossless ==
    last.op = "to_dict" =>
        LET self == last.arg
            dict == last.returned
        IN  /\ last.result = "ok"
            /\ dict.id = self.id
            /\ self.variant = "LineSection" =>
                  /\ dict.type = "line"
                  /\ Deserialized(dict.start) = self.start
                  /\ Deserialized(dict.end) = self.end
            /\ self.variant = "Area" =>
                  /\ dict.type = "area"
                  /\ Len(dict.coordinates) = Len(self.coordinates)
                  /\ \A i \in 1..Len(self.coordinates) :
                        Deserialized(dict.coordinates[i]) = self.coordinates[i]
            /\ \A other \in SectionRepository_get_all(section_repository)
                               \cup SectionsOffered :
                  SameSerialized(Section_to_dict(other), dict)
                      => other.id = self.id /\ SameGeometry(other, self)
            /\ section_repository = last.pre
            /\ self \in SectionRepository_get_all(section_repository)

\* A line and an area the repository holds have each been serialized, the
\* area one whose corners differ.
C21_Witness ==
    /\ last.op = "to_dict"
    /\ last.arg.variant = "Area"
    /\ last.arg.coordinates[1] # last.arg.coordinates[2]
    /\ \E other \in SectionRepository_get_all(section_repository) :
          other.variant = "LineSection"

\* add called for each of the first n sections, in input order.
RECURSIVE AddEach(_, _, _)
AddEach(self, sections, n) ==
    IF n = 0 THEN self
    ELSE SectionRepository_add(AddEach(self, sections, n - 1), sections[n])

\* The rearrangements of a sequence.
PermutationsOf(sections) ==
    {[i \in 1..Len(sections) |-> sections[f[i]]] : f \in Permutations(1..Len(sections))}

\* No two different sections of the input share an id.
Independent(sections) ==
    \A i, j \in 1..Len(sections) :
        sections[i].id = sections[j].id => sections[i] = sections[j]

\* The sections of the input with this id, and the last of them.
IndicesOf(sections, id) == {i \in 1..Len(sections) : sections[i].id = id}

LastOf(sections, id) ==
    sections[CHOOSE i \in IndicesOf(sections, id) :
                 \A j \in IndicesOf(sections, id) : j <= i]

\* C22 as stated: add_all is the sequence of adds in input order, and every
\* permutation of the input leaves the repository with the same contents.
C22_OrderIsImmaterial ==
    (last.obj = "SectionRepository" /\ last.op = "add_all") =>
        /\ section_repository = AddEach(last.pre, last.arg, Len(last.arg))
        /\ \A permuted \in PermutationsOf(last.arg) :
              SectionRepository_add_all(last.pre, permuted) = section_repository

\* C22, amended: add_all is the sequence of adds in input order, so under
\* every id of the input the repository holds the last section of the input
\* with that id and the other ids keep their entries; a permutation of the
\* input leaves the same contents when no two different sections of the
\* input share an id.
C22_AddAllIsSequentialAdd ==
    (last.obj = "SectionRepository" /\ last.op = "add_all") =>
        /\ last.result = "ok"
        /\ section_repository = AddEach(last.pre, last.arg, Len(last.arg))
        /\ \A id \in SectionIds :
              HeldUnder(section_repository, id) =
                  IF IndicesOf(last.arg, id) # {} THEN {LastOf(last.arg, id)}
                  ELSE HeldUnder(last.pre, id)
        /\ Independent(last.arg) =>
              \A permuted \in PermutationsOf(last.arg) :
                  SectionRepository_add_all(last.pre, permuted) = section_repository

\* Two different sections with one id were added at once to a repository
\* that held another section: the second of them is kept.
C22_Witness ==
    /\ last.obj = "SectionRepository" /\ last.op = "add_all"
    /\ Len(last.arg) = 2
    /\ last.arg[1].id = last.arg[2].id
    /\ last.arg[1] # last.arg[2]
    /\ last.pre._sections # {}
    /\ HeldUnder(section_repository, last.arg[2].id) = {last.arg[2]}

(* C23: BindableProperty.set stores the value before it notifies: every     *)
(* observer invoked by set(v) that calls get() on the cell inside its       *)
(* notification reads v.  So when TrackImageUpdater handles a               *)
(* show_tracks.set and a frame is returned, it publishes the frame with the *)
(* plot laid over it for set(true) and the plain frame for set(false):      *)
(* what it publishes follows the new flag, never the value before the       *)
(* toggle.                                                                  *)
C23_StoredBeforeNotified ==
    /\ (last.obj = "BindableProperty" /\ last.op = "set") =>
          /\ Len(property_log.read) = Len(last.invoked)
          /\ \A i \in 1..Len(property_log.read) : property_log.read[i] = last.arg
    /\ (ToggleEvent /\ BaseFrameReturned) =>
          LET base == Frame(updater_log.fetched[1])
          IN  /\ Len(updater_log.published) = 1
              /\ last.arg = "True" =>
                    /\ updater_log.published[1] # {base}
                    /\ \E image \in updater_log.published[1] :
                          image.frame = base.frame /\ image.overlay # {}
              /\ last.arg = "False" => updater_log.published[1] = {base}

\* A toggle to true of a flag that was false, handled by the updater with a
\* frame returned: the frame is published with the plot laid over it.
C23_Witness ==
    /\ ToggleEvent /\ BaseFrameReturned
    /\ last.arg = "True"
    /\ last.pre.show_tracks._property = "False"
    /\ last.result = "ok"
    /\ updater_log.published # << {Frame(updater_log.fetched[1])} >>
    /\ track_view_state.background_image._property = updater_log.published[1]

\* The step is a call of select with an absent id on this object.
SelectsAbsent(obj) ==
    last'.obj = obj /\ last'.op = "select" /\ last'.arg = None

\* A step of a behaviour in which ids passed in are present: a selection
\* that is present stays present, the selection changes only in calls of
\* select and notify_tracks/notify_sections, and register leaves it alone.
C24_Step ==
    \A obj \in SelectionStates :
        /\ (SelectionOf(obj) # None /\ ~SelectsAbsent(obj)) => SelectionOf(obj)' # None
        /\ SelectionOf(obj)' # SelectionOf(obj) =>
              last'.obj = obj /\ last'.op \in {"select", "notify_list"}
        /\ (last'.obj = obj /\ last'.op = "register") =>
              SelectionOf(obj)' = SelectionOf(obj)

(* C24: a TrackState or SectionState starts with no selection, and there is *)
(* no transition back: as long as select is given a present id (the lists   *)
(* passed to notify_tracks/notify_sections hold present ids only), a        *)
(* selection once made is never absent again; the selection changes only    *)
(* through select and notify_tracks/notify_sections, never through          *)
(* register.                                                                *)
C24_NoTransitionBack ==
    /\ [](last = NoCall =>
            \A obj \in SelectionStates : SelectionOf(obj) = None)
    /\ [][C24_Step]_vars

\* With a track selected, notify_tracks was called with an empty list and a
\* registered observer: the call raised and the selection is still there.
C24_Witness ==
    /\ last.obj = "TrackState" /\ last.op = "notify_list"
    /\ last.arg = <<>>
    /\ last.result = "IndexError"
    /\ last.pre # None
    /\ track_state.selected_track = last.pre
    /\ track_state.observers # {}

\* The most recent call is an update of the builder.
BuilderUpdated == last.obj = "LineSectionGeometryBuilder" /\ last.op = "update"

\* The section geometries the most recent update handed to the view model.
GeometriesRequested ==
    {last.invoked[i].args : i \in {j \in 1..Len(last.invoked) :
        last.invoked[j].callee = "view_model.set_new_section_geometry"}}

(* C25: over any sequence of update calls on a LineSectionGeometryBuilder,   *)
(* the first left_mousebutton_up only records point0 and mouse_motion events *)
(* before it are ignored; the next left_mousebutton_up calls                 *)
(* view_model.set_new_section_geometry exactly once, with point0 and the     *)
(* coordinates of that event, and then in the same call detaches the         *)
(* builder from the event handler of the canvas and deletes the temporary    *)
(* line; set_new_section_geometry is never called before the second          *)
(* left_mousebutton_up.                                                      *)
C25_SecondReleaseBuilds ==
    /\ canvas_log.ups < 2 => canvas_log.requested = 0 /\ canvas_log.attached
    /\ canvas_log.ups = 0 => ~canvas_log.drawn
    /\ BuilderUpdated =>
          LET coordinates == last.arg[1]
              released == last.arg[2] = "left_mousebutton_up"
          IN  /\ (released /\ canvas_log.ups = 1) =>
                    /\ builder = [last.pre EXCEPT !.point0 = {coordinates}]
                    /\ last.invoked = <<>>
              /\ (last.arg[2] = "mouse_motion" /\ canvas_log.ups = 0) =>
                    /\ builder = last.pre
                    /\ last.invoked = <<>>
              /\ (released /\ canvas_log.ups = 2) =>
                    /\ last.invoked =
                          <<Asks("view_model.set_new_section_geometry",
                                 <<PointOf(canvas_log.first_up), coordinates>>),
                            Asks("detach_from", <<"event_handler">>),
                            Asks("line_section_deleter.delete_sections",
                                 <<"temporary_line_section">>)>>
                    /\ canvas_log.requested = 1
                    /\ ~canvas_log.attached
                    /\ ~canvas_log.drawn
                    /\ last.result = "ok"

\* Mouse motion, a release, motion that drew the temporary line, and a
\* second release elsewhere: one geometry was handed over.
C25_Witness ==
    /\ BuilderUpdated
    /\ last.arg[2] = "left_mousebutton_up"
    /\ canvas_log.ups = 2
    /\ canvas_log.events = 4
    /\ last.pre.point1_tmp # {}
    /\ last.pre.point0 # {last.arg[1]}
    /\ canvas_log.requested = 1
    /\ GeometriesRequested = {<<PointOf(last.pre.point0), last.arg[1]>>}

(* C28: LineSectionGeometryBuilder never passes two equal points to         *)
(* view_model.set_new_section_geometry, for any event sequence including    *)
(* two left_mousebutton_up events at the same coordinates: it never asks    *)
(* for a line that the validation of LineSection rejects.                   *)
C28_NeverDegenerate ==
    BuilderUpdated =>
        \A geometry \in GeometriesRequested :
            /\ geometry[1] # geometry[2]
            /\ LineSection_init("new", Coordinate(geometry[1][1], geometry[1][2]),
                                Coordinate(geometry[2][1], geometry[2][2])).result = "ok"

\* The most recent call is a select on this object that ended with the
\* failure of an observer.
SelectFailed(obj) ==
    last.obj = obj /\ last.op = "select" /\ last.result = "ObserverError"

\* After a failed select(x) the selection is x.
C27_NotRolledBack ==
    \A obj \in SelectionStates :
        SelectFailed(obj) =>
            /\ SelectionOf(obj) = last.arg
            /\ last.arg # last.pre
            /\ last.invoked # <<>>

\* A failed select(x) directly followed by select(x): nobody is notified,
\* the observers the failed delivery skipped included.
C27_Retried ==
    \A obj \in SelectionStates :
        (/\ SelectFailed(obj)
         /\ last'.obj = obj /\ last'.op = "select" /\ last'.arg = last.arg) =>
            /\ last'.invoked = <<>>
            /\ last'.result = "ok"
            /\ SelectionOf(obj)' = last.arg
            /\ \A o \in last.observers :
                  TimesInvoked(last, o) = 0 => TimesInvoked(last', o) = 0

(* C27: if an observer fails during the notification triggered by select(x) *)
(* on a TrackState or SectionState, the selection is x after the failure    *)
(* has propagated (the change is not rolled back), and a following          *)
(* select(x) delivers no notification, so that the observers skipped by the *)
(* aborted delivery are not told about x.                                   *)
C27_FailedSelectSticks == [][C27_NotRolledBack' /\ C27_Retried]_vars

\* A select whose first observer raised, leaving the second one out.
C27_Witness ==
    /\ SelectFailed("TrackState")
    /\ Cardinality(last.observers) = 2
    /\ Len(last.invoked) = 1
    /\ track_state.selected_track = last.arg
    /\ last.arg # None

\* s is t with some entries left out.
RECURSIVE IsSubsequence(_, _)
IsSubsequence(s, t) ==
    IF s = <<>> THEN TRUE
    ELSE IF t = <<>> THEN FALSE
    ELSE IF Head(s) = Head(t) THEN IsSubsequence(Tail(s), Tail(t))
    ELSE IsSubsequence(s, Tail(t))

\* A register call invokes nobody and returns normally.
C29_RegisterIsQuiet ==
    (last.op = "register"
        /\ last.obj \in SubjectKinds \cup SelectionStates \cup {"BindableProperty"}) =>
        /\ last.invoked = <<>>
        /\ last.result = "ok"

\* What an observer has received comes from the set calls made after it
\* registered, and an observer is invoked only by notify on a subject, by
\* set on a cell and by a select that changes the selection, with the new
\* selection.
C29_NothingReplayed ==
    /\ \A o \in Observers :
          IF property_log.registered_at[o] < 0 THEN property_log.received[o] = <<>>
          ELSE IsSubsequence(property_log.received[o],
                             SubSeq(property_log.sets, property_log.registered_at[o] + 1,
                                    Len(property_log.sets)))
    /\ (last.obj \in SubjectKinds /\ last.invoked # <<>>) => last.op = "notify"
    /\ (last.obj = "BindableProperty" /\ last.invoked # <<>>) => last.op = "set"
    /\ (last.obj \in SelectionStates /\ last.invoked # <<>>) =>
          /\ last.op \in {"select", "notify_list"}
          /\ SelectionOf(last.obj) # last.pre
          /\ \A i \in 1..Len(last.invoked) : last.invoked[i][2] = SelectionOf(last.obj)

\* A register step leaves the stored value, the selection and what the
\* observers have received as they were.
C29_RegisterStep ==
    last'.op = "register" =>
        /\ bindable_property'._property = bindable_property._property
        /\ property_log'.received = property_log.received
        /\ track_state'.selected_track = track_state.selected_track
        /\ section_state'.selected_section = section_state.selected_section

(* C29: register on a Subject, BindableProperty, TrackState or SectionState *)
(* never invokes the observer and leaves the stored value / selection       *)
(* unchanged: an observer registered after a value was set or a selection   *)
(* was made receives nothing until the next set, respectively the next      *)
(* select that changes the selection (the current value is not replayed).   *)
C29_RegisterDoesNotReplay ==
    /\ [](C29_RegisterIsQuiet /\ C29_NothingReplayed)
    /\ [][C29_RegisterStep]_vars

\* A second observer registered on a cell that holds a value which the
\* first observer has received: the newcomer has received nothing.
C29_Witness ==
    /\ last.obj = "BindableProperty" /\ last.op = "register"
    /\ last.arg \notin last.observers
    /\ last.observers # {}
    /\ bindable_property._property \in Values
    /\ property_log.received[last.arg] = <<>>
    /\ \E o \in last.observers : property_log.received[o] # <<>>

\* The outermost select call has returned.
OutermostReturned ==
    last.obj = under_test /\ last.op = "select" /\ frames = <<>>

(* C26: whenever an outermost select call on a TrackState or SectionState   *)
(* has returned normally, the value most recently delivered to every        *)
(* observer notified during that call equals the current selection, also    *)
(* when an observer calls select on the same state from inside its          *)
(* notification.                                                            *)
C26_ObserversAgreeWithSelection ==
    OutermostReturned =>
        \A o \in Observers :
            reentry.received[o] # <<>> =>
                reentry.received[o][Len(reentry.received[o])] = SelectionOfDriven

\* Every registered observer selects again what it is told.
AllReselect ==
    \A o \in ObserversOfDriven : reentry.reaction[o].kind = "reselect"

\* With such observers a call nests one delivery at most, and a returned
\* outermost call has notified every observer once if it changed the
\* selection, with the new selection, and nobody if it did not.
C30_OncePerChange ==
    AllReselect =>
        /\ Len(frames) <= 1
        /\ reentry.changes <= 1
        /\ OutermostReturned =>
              /\ reentry.changes = (IF last.arg = last.pre THEN 0 ELSE 1)
              /\ SelectionOfDriven = last.arg
              /\ \A o \in ObserversOfDriven :
                    reentry.received[o] =
                        (IF last.arg = last.pre THEN <<>> ELSE <<last.arg>>)

(* C30: re-entrant selection terminates thanks to the comparison in select: *)
(* if every observer of a TrackState or SectionState reacts to a            *)
(* notification with value v only by calling select(v) on the same state,   *)
(* every select call terminates and each observer is notified exactly once  *)
(* per change of the selection.                                             *)
C30_ReselectTerminates ==
    /\ (AllReselect /\ frames # <<>>) ~> (frames = <<>>)
    /\ []C30_OncePerChange

\* Two observers that select again what they are told were both notified,
\* once each, by a select that replaced an earlier selection.
C30_Witness ==
    /\ OutermostReturned
    /\ AllReselect
    /\ Cardinality(ObserversOfDriven) = 2
    /\ last.pre # None
    /\ last.arg # last.pre
    /\ \A o \in ObserversOfDriven : reentry.received[o] = <<last.arg>>

=============================================================================
